---------------------------- MODULE Spec2Model ----------------------------
(***************************************************************************)
(* Price Monitoring Engine of crypto-alert: the Alert Evaluator            *)
(* (monitoring/alert_checker.py), the monitoring cycle                     *)
(* (monitoring/price_monitor.py) and the scheduler (monitoring/scheduler.py)*)
(* modelled as state machines.                                             *)
(*                                                                         *)
(* Prices, targets, baselines and thresholds are Python floats.  The model *)
(* uses integer-valued floats (exactly representable), so comparison and   *)
(* subtraction are exact; division and multiplication are modelled with    *)
(* IEEE-754 binary64 rounding (round to nearest, ties to even) on an       *)
(* explicit 53-bit significand.                                            *)
(***************************************************************************)
EXTENDS Integers, Sequences, FiniteSets, TLC

(***************************************************************************)
(* Values                                                                  *)
(***************************************************************************)

\* Python None in a nullable float / datetime column (all real values are >= 0)
None == -1

ACTIVE == "active"
TRIGGERED == "triggered"
PAUSED == "paused"
DELETED == "deleted"
AlertStatus == {ACTIVE, TRIGGERED, PAUSED, DELETED}

ABOVE == "above"
BELOW == "below"
PERCENT_CHANGE == "percent_change"
AlertType == {ABOVE, BELOW, PERCENT_CHANGE}

Abs(x) == IF x < 0 THEN -x ELSE x

(***************************************************************************)
(* binary64 arithmetic on positive values.  A positive float is            *)
(* [e |-> exponent of its leading bit, m |-> its 53-bit significand M],    *)
(* of value M * 2^(e - 52) with 2^52 <= M < 2^53.  M is kept as NLimbs     *)
(* digits of LimbBits bits, most significant first, so that every          *)
(* intermediate value fits a 32-bit integer.                               *)
(***************************************************************************)

\* significand precision of a Python float (binary64)
MantBits == 53
LimbBits == 9
NLimbs == 6
Base == 2 ^ LimbBits
\* bits of the significand held by its first digit
TopBits == MantBits - LimbBits * (NLimbs - 1)

\* number of binary digits of n >= 0
BitLen(n) == Cardinality({k \in 0..30 : 2 ^ k <= n})

\* num/den scaled by powers of two into [1, 2): <<num', den', e>> with
\* num/den = (num'/den') * 2^e
Norm(num, den) ==
    LET a == BitLen(num)
        b == BitLen(den)
        n1 == IF a >= b THEN num ELSE num * 2 ^ (b - a)
        d1 == IF a >= b THEN den * 2 ^ (a - b) ELSE den
    IN  IF n1 < d1 THEN <<2 * n1, d1, a - b - 1>> ELSE <<n1, d1, a - b>>

\* the n next digits of r/den (r < den) by long division, appended to acc,
\* and the remainder
RECURSIVE DivLimbs(_, _, _, _)
DivLimbs(r, den, n, acc) ==
    IF n = 0 THEN <<acc, r>>
    ELSE DivLimbs((r * Base) % den, den, n - 1,
                  Append(acc, (r * Base) \div den))

RECURSIVE IncLimbs(_)
IncLimbs(l) ==
    LET n == Len(l)
    IN  IF n = 0 THEN <<>>
        ELSE IF l[n] + 1 < Base THEN [l EXCEPT ![n] = l[n] + 1]
        ELSE IncLimbs(SubSeq(l, 1, n - 1)) \o <<0>>

\* round to nearest, ties to even: `half` compares the discarded part with
\* half a unit in the last place (-1 below, 0 equal, 1 above)
RoundLimbs(l, e, half) ==
    LET up == half = 1 \/ (half = 0 /\ l[NLimbs] % 2 = 1)
        inc == IncLimbs(l)
    IN  IF ~up THEN [e |-> e, m |-> l]
        ELSE IF inc[1] = 2 ^ TopBits
             THEN [e |-> e + 1,
                   m |-> [i \in 1..NLimbs |->
                             IF i = 1 THEN 2 ^ (TopBits - 1) ELSE 0]]
             ELSE [e |-> e, m |-> inc]

Cmp(x, y) == IF x < y THEN -1 ELSE IF x = y THEN 0 ELSE 1

\* fl(num / den) for integers num, den > 0
FDiv(num, den) ==
    LET nrm == Norm(num, den)
        top == nrm[1] * 2 ^ (TopBits - 1)
        db == DivLimbs(top % nrm[2], nrm[2], NLimbs - 1,
                       <<top \div nrm[2]>>)
    IN  RoundLimbs(db[1], nrm[3], Cmp(2 * db[2], nrm[2]))

\* the exact product of a digit string and an integer 0 < k < Base
RECURSIVE MulLimbs(_, _, _)
MulLimbs(l, k, carry) ==
    LET n == Len(l)
    IN  IF n = 0 THEN (IF carry = 0 THEN <<>> ELSE <<carry>>)
        ELSE MulLimbs(SubSeq(l, 1, n - 1), k, (l[n] * k + carry) \div Base)
                 \o <<(l[n] * k + carry) % Base>>

\* the digit string shifted right by s <= LimbBits bits: the quotient
\* digits appended to acc, and the bits shifted out
RECURSIVE ShrLimbs(_, _, _, _)
ShrLimbs(l, s, rem, acc) ==
    IF l = <<>> THEN <<acc, rem>>
    ELSE ShrLimbs(Tail(l), s, (rem * Base + l[1]) % (2 ^ s),
                  Append(acc, (rem * Base + l[1]) \div (2 ^ s)))

\* fl(f * k) for a float f and an integer 0 < k < Base
FMulInt(f, k) ==
    LET p == MulLimbs(f.m, k, 0)
        s == BitLen(p[1]) + LimbBits * (Len(p) - 1) - MantBits
        sh == ShrLimbs(p, s, 0, <<>>)
        q == SubSeq(sh[1], Len(p) - NLimbs + 1, Len(p))
    IN  RoundLimbs(q, f.e + s,
                   IF s = 0 THEN -1 ELSE Cmp(2 * sh[2], 2 ^ s))

RECURSIVE ToInt(_)
ToInt(l) == IF l = <<>> THEN 0
            ELSE ToInt(SubSeq(l, 1, Len(l) - 1)) * Base + l[Len(l)]

\* f >= t for a float f and an integer t > 0:
\* M * 2^(e - 52) >= t  iff  M \div 2^(52 - e) >= t  when e = BitLen(t) - 1
FGeInt(f, t) ==
    LET et == BitLen(t) - 1
        s == (MantBits - 1) - f.e
        kept == SubSeq(f.m, 1, NLimbs - (s \div LimbBits))
    IN  IF f.e # et THEN f.e > et
        ELSE ToInt(ShrLimbs(kept, s % LimbBits, 0, <<>>)[1]) >= t

(***************************************************************************)
(* Alert Evaluator: AlertChecker.should_trigger_alert                      *)
(***************************************************************************)

\* abs(((current_price - created_price) / created_price) * 100) >= threshold
\* for created_price > 0 and a threshold that is a number: the subtraction
\* is exact, the quotient and the product are rounded, abs and >= are exact.
PercentReached(current_price, created_price, threshold) ==
    LET d == Abs(current_price - created_price)
    IN  IF d = 0 THEN 0 >= threshold
        ELSE IF threshold <= 0 THEN TRUE
        ELSE FGeInt(FMulInt(FDiv(d, created_price), 100), threshold)

\* the evaluation raises: ZeroDivisionError for a baseline of 0, TypeError
\* for the comparison of a float with a threshold of None
should_trigger_raises(alert, current_price) ==
    /\ alert.status = ACTIVE
    /\ alert.alert_type = PERCENT_CHANGE
    /\ alert.created_price # None
    /\ (alert.created_price = 0 \/ alert.percent_change = None)

\* faulty variants of should_trigger_alert: a strict comparison for `above`, a
\* strict comparison for `below`, no baseline check, no status check
should_trigger_alert_strict_above(alert, current_price) ==
    IF alert.status # ACTIVE THEN FALSE
    ELSE IF alert.alert_type = ABOVE
         THEN current_price > alert.target_price
    ELSE IF alert.alert_type = BELOW
         THEN current_price <= alert.target_price
    ELSE IF alert.created_price = None THEN FALSE
    ELSE PercentReached(current_price, alert.created_price,
                        alert.percent_change)

should_trigger_alert_strict_below(alert, current_price) ==
    IF alert.status # ACTIVE THEN FALSE
    ELSE IF alert.alert_type = ABOVE
         THEN current_price >= alert.target_price
    ELSE IF alert.alert_type = BELOW
         THEN current_price < alert.target_price
    ELSE IF alert.created_price = None THEN FALSE
    ELSE PercentReached(current_price, alert.created_price,
                        alert.percent_change)

should_trigger_alert_no_baseline_check(alert, current_price) ==
    IF alert.status # ACTIVE THEN FALSE
    ELSE IF alert.alert_type = ABOVE
         THEN current_price >= alert.target_price
    ELSE IF alert.alert_type = BELOW
         THEN current_price <= alert.target_price
    ELSE current_price # alert.created_price

should_trigger_alert_no_status_check(alert, current_price) ==
    IF alert.alert_type = ABOVE
    THEN current_price >= alert.target_price
    ELSE IF alert.alert_type = BELOW
         THEN current_price <= alert.target_price
    ELSE IF alert.created_price = None \/ alert.created_price = 0
              \/ alert.percent_change = None THEN FALSE
    ELSE PercentReached(current_price, alert.created_price,
                        alert.percent_change)

\* the value returned when the evaluation does not raise
should_trigger_alert(alert, current_price) ==
    IF alert.status # ACTIVE THEN FALSE
    ELSE IF alert.alert_type = ABOVE
         THEN current_price >= alert.target_price
    ELSE IF alert.alert_type = BELOW
         THEN current_price <= alert.target_price
    ELSE IF alert.alert_type = PERCENT_CHANGE
         THEN IF alert.created_price = None THEN FALSE
              ELSE PercentReached(current_price, alert.created_price,
                                  alert.percent_change)
    ELSE FALSE

(***************************************************************************)
(* PriceMonitor._check_alert on one alert, when notification and flush     *)
(* succeed                                                                 *)
(***************************************************************************)

\* alert.status = TRIGGERED; alert.triggered_price = current_price;
\* alert.triggered_at = datetime.utcnow()
StampTriggered(alert, current_price, now) ==
    [alert EXCEPT !.status = TRIGGERED,
                  !.triggered_price = current_price,
                  !.triggered_at = now]

\* faulty variant of check_alert: the alert is stamped and notified whatever
\* should_trigger_alert returned
check_alert_eager(alert, current_price, now) ==
    [alert |-> StampTriggered(alert, current_price, now),
     notified |-> 1, raised |-> FALSE]

\* [alert |-> the alert afterwards, notified |-> calls of notify_user,
\*  raised |-> an exception left _check_alert]
check_alert(alert, current_price, now) ==
    IF should_trigger_raises(alert, current_price)
    THEN [alert |-> alert, notified |-> 0, raised |-> TRUE]
    ELSE IF ~should_trigger_alert(alert, current_price)
    THEN [alert |-> alert, notified |-> 0, raised |-> FALSE]
    ELSE [alert |-> StampTriggered(alert, current_price, now),
          notified |-> 1, raised |-> FALSE]


(***************************************************************************)
(* Inputs                                                                  *)
(***************************************************************************)

CRYPTO == "crypto"
STOCK == "stock"
AssetType == {STOCK, CRYPTO}

Symbols == {"BTC", "ETH"}
Prices == {71, 95, 99, 100, 104, 105, 129, 50000}
Targets == {100, 50000}
Thresholds == {None, 5, 29}
Baselines == {None, 0, 100}
\* largest value of the clock read by datetime.utcnow()
MaxNow == 2

\* an alert row: the columns of alerts/models.py the engine reads or writes
AlertRows(syms, kinds, statuses) ==
    [symbol : syms, asset_type : {CRYPTO}, alert_type : kinds,
     target_price : Targets, percent_change : Thresholds,
     created_price : Baselines, status : statuses,
     triggered_price : {None}, triggered_at : {None}]

\* the place of a row that does not exist
NoRow ==
    [symbol |-> "", asset_type |-> "", alert_type |-> "",
     target_price |-> None, percent_change |-> None, created_price |-> None,
     status |-> "", triggered_price |-> None, triggered_at |-> None]

\* rows in the alerts table
NumAlerts == 2
AlertIds == 1 .. NumAlerts

\* asyncio tasks that can exist at the same time
NumSlots == 2
Slots == 1 .. NumSlots

\* quotes the market data client returns to the monitor
MonitorPrices == {99, 100}

\* the alerts the table holds when the monitor runs.  POST /alerts requires
\* target_price, validates percent_change only when it is supplied, and
\* stores the quote at creation as created_price: an `above` alert, and a
\* percent-change alert created without percent_change
StoredAlerts ==
    [symbol : Symbols, asset_type : {CRYPTO}, alert_type : {ABOVE},
     target_price : {100}, percent_change : {None}, created_price : {100},
     status : {ACTIVE}, triggered_price : {None}, triggered_at : {None}]
    \cup
    [symbol : Symbols, asset_type : {CRYPTO}, alert_type : {PERCENT_CHANGE},
     target_price : {100}, percent_change : {None}, created_price : {100},
     status : {ACTIVE}, triggered_price : {None}, triggered_at : {None}]

\* await asyncio.sleep(self.check_interval); await asyncio.sleep(10)
check_interval == 5
ERROR_SLEEP == 10

VARIABLES
    ev_alert,     \* the alert handed to the evaluator
    ev_price,     \* the current price handed to it
    ev_now,       \* the clock
    ev_op,        \* the last operation applied: "input", "should_trigger", "check_alert"
    ev_ret,       \* what it returned: "none", "true", "false", "raise", "ok"
    ev_pre,       \* the alert before the last _check_alert
    ev_notified,  \* calls of notify_user made by the last _check_alert
    db,           \* the alerts table: committed rows by id
    clock,        \* number of monitoring cycles started, the value of utcnow()
    running,      \* price_monitor.running
    interval,     \* price_monitor.check_interval
    monitor_task, \* monitor_scheduler.monitor_task: a slot, 0 for None
    task,         \* the tasks running PriceMonitor.start(), by slot
    stopper,      \* the call of MonitorScheduler.stop() in progress
    sched_log,    \* the last line logged by MonitorScheduler.start()/stop()
    hist,         \* history: how loops ended, how stop() returned, the last
                  \* call of the scheduler
    hub,          \* the registries of the ConnectionManager
    ep,           \* the websocket_endpoint coroutine of each connection
    hmon,         \* the call of the hub made by the monitor
    nu,           \* the call of notify_user in progress and what it has done
    gw,           \* the price cache and the price requests in progress
    usr,          \* the request of a user on the alert store in progress
    conv          \* the last client event an endpoint handled, and its answer

evalVars == <<ev_alert, ev_price, ev_now, ev_op, ev_ret, ev_pre, ev_notified>>

engVars == <<db, clock, running, interval, monitor_task, task, stopper,
            sched_log, hist>>

hubVars == <<hub, ep, hmon>>
notVars == <<nu>>
gateVars == <<gw>>
storeVars == <<usr>>
wsVars == <<conv>>

vars == <<evalVars, engVars, hubVars, notVars, gateVars, storeVars, wsVars>>

\* a slot without a task; the fields of a task are its position in
\* PriceMonitor.start() (pc), a pending cancellation, the session's copies of
\* the loaded rows, the groups still to check (the first one is being
\* checked), the index of the alert being triggered, the fetched price, the
\* rows updated in the open transaction, a session whose flush failed, the
\* length of the current sleep, and the log of the current cycle:
\* c_tried the groups whose fetch was attempted, c_fetched the groups
\* fetched with their price, c_raised the alerts whose evaluation raised,
\* c_end how the cycle ended, c_prev how the cycle before it ended,
\* c_prevfail the groups whose fetch failed in the cycle before it, c_cast
\* the price updates handed to the hub, c_evald the groups whose alerts the
\* for loop of _check_symbol_alerts was entered for, c_checked the alerts
\* _check_alert was called for
IdleTask ==
    [pc |-> "free", cancel |-> FALSE,
     sess |-> [a \in AlertIds |-> NoRow],
     groups |-> <<>>, gi |-> 0, price |-> None,
     flushed |-> {}, broken |-> FALSE, sleep_for |-> 0,
     c_tried |-> {}, c_fetched |-> {}, c_raised |-> {}, c_end |-> "none",
     c_prev |-> "none", c_prevfail |-> {},
     c_cast |-> <<>>, c_evald |-> {}, c_checked |-> {}]

IdleStopper == [st |-> "idle", on |-> 0, started_during |-> FALSE]

\* WebSocket objects that connect during a run, and the users they
\* authenticate as (user ids are primary keys: positive)
Conns == {1, 2, 3}
Users == {1, 2}
Owner(c) == IF c % 2 = 1 THEN 1 ELSE 2

\* symbols as clients and the monitor write them, and str.upper()
RawSymbols == {"eth", "Eth", "ETH", "BTC"}
CastSymbols == {"eth", "ETH"}

Upper(symbol) ==
    CASE symbol = "eth" -> "ETH"
      [] symbol = "Eth" -> "ETH"
      [] symbol = "ETH" -> "ETH"
      [] symbol = "BTC" -> "BTC"
      [] OTHER -> symbol

\* the symbol of a group of alerts, upper case since the alert was created
CastKeys == {Upper(s) : s \in CastSymbols}

\* no send_personal_message in progress
NoJob == [user |-> 0, idx |-> 0, cur |-> 0, dead |-> <<>>, orphan |-> FALSE,
          at_start |-> {}, ok |-> {}]

\* the monitor is not inside a call of the hub
IdleMon == [pc |-> "idle", users |-> <<>>, job |-> NoJob, snapshot |-> {},
            conns_at_start |-> {}, tried |-> {}]

\* notify_user is not running
IdleNu == [pc |-> "idle", user |-> 0,
           notify_websocket |-> FALSE, notify_email |-> FALSE,
           notify_sms |-> FALSE,
           pushed |-> FALSE, emailed |-> FALSE, texted |-> FALSE]

\* the places for a price request in progress, the symbols asked for as
\* the caller writes them, and the prices a provider answers
Requests == {1}
GateSymbols == {"ETH", "eth", "LTC"}
GatePrices == {100, 101}

\* who asks: GET /market/price (and create_alert), GET /market/validate,
\* and _check_symbol_alerts of the monitor
Entries == {"lookup", "validate", "monitor"}

\* the symbols of symbol_map in get_crypto_price_coingecko, among GateSymbols
symbol_map == {"BTC", "ETH"}

\* cache_key = f"price:{asset_type}:{symbol}"
cache_key(asset_type, symbol) == <<asset_type, symbol>>
CacheKeys == {cache_key(t, Upper(s)) : t \in AssetType, s \in GateSymbols}

\* str(price) as Redis stores it, float(cached_price), and a missing key
Str(price) == <<price>>
Float(cached_price) == cached_price[1]
NoEntry == <<>>

\* what the HTTP request of an adapter ends with: a quote, a response
\* without a price (HTTP 400, unknown symbol), an error or a timeout
Replies ==
    [kind : {"price"}, price : GatePrices]
        \cup [kind : {"not_found", "error"}, price : {None}]

\* no price request in progress in this place; cache_failed records that
\* Redis was not connected, or raised, in a read or a write of the request
IdleReq == [pc |-> "idle", entry |-> "none", symbol |-> "none",
            asset_type |-> "none", consulted |-> FALSE, got |-> NoEntry,
            contacted |-> <<>>, replies |-> <<>>, price |-> None,
            raised |-> "none", status |-> 0, valid |-> "none",
            source |-> "none", cache_failed |-> FALSE]

\* the Redis cache is empty and nobody asks for a price
GateIdle == [cache |-> [k \in CacheKeys |-> NoEntry],
             req |-> [r \in Requests |-> IdleReq]]

\* no request of a user on the alert store in progress; the fields of a
\* request are the route (op), the alert id of its path, the status of its
\* AlertUpdate body, the row its session loaded and the answer; deleted_at
\* keeps, for every alert the user deleted, the number of cycles begun then
IdleUsr == [pc |-> "idle", op |-> "none", id |-> 0, status |-> "none",
            row |-> NoRow, answer |-> 0,
            deleted_at |-> [a \in AlertIds |-> None]]

\* MarketDataClient.__init__, RedisClient.__init__, no HTTP request open
GateInit ==
    /\ gw = GateIdle
    /\ usr = IdleUsr

\* no client event, and no response to one
NoEvent == [type |-> "none", symbol |-> "none"]
NoReply == [type |-> "none", symbol |-> "none", data |-> {}]

\* no endpoint has handled a client event yet
NoTalk == [conn |-> 0, event |-> NoEvent, reply |-> NoReply,
           dropped |-> FALSE]

\* ConnectionManager.__init__: three empty dicts; no connection yet
HubInit ==
    /\ hub = [active_connections |-> [u \in Users |-> <<>>],
              active_keys |-> {},
              symbol_watchers |-> [k \in {} |-> {}],
              websocket_users |-> [c \in Conns |-> 0]]
    /\ ep = [c \in Conns |-> [pc |-> "new", job |-> NoJob]]
    /\ hmon = IdleMon
    /\ nu = IdleNu
    /\ conv = NoTalk

\* PriceMonitor.__init__, MonitorScheduler.__init__, ConnectionManager
Constructed ==
    /\ HubInit
    /\ GateInit
    /\ clock = 0
    /\ running = FALSE
    /\ interval = check_interval
    /\ monitor_task = 0
    /\ task = [s \in Slots |-> IdleTask]
    /\ stopper = IdleStopper
    /\ sched_log = "none"
    /\ hist = [exit_cause |-> "none", last_stop |-> "none",
               warned |-> FALSE, stop_called |-> FALSE,
               last_call |-> "none",
               dispatched |-> [a \in AlertIds |-> 0]]

\* the engine at rest over an empty table
EngInit ==
    /\ db = [a \in AlertIds |-> NoRow]
    /\ Constructed

(***************************************************************************)
(* The evaluator applied to arbitrary alerts and prices                    *)
(***************************************************************************)

EvalInit ==
    /\ ev_alert \in AlertRows({"BTC"}, AlertType, AlertStatus)
    /\ ev_price \in Prices
    /\ ev_now = 1
    /\ ev_op = "input"
    /\ ev_ret = "none"
    /\ ev_pre = ev_alert
    /\ ev_notified = 0
    /\ EngInit

\* should_trigger_alert(alert, current_price)
EvalShouldTrigger ==
    /\ ev_op = "input"
    /\ ev_op' = "should_trigger"
    /\ ev_ret' = IF should_trigger_raises(ev_alert, ev_price) THEN "raise"
                 ELSE IF should_trigger_alert(ev_alert, ev_price) THEN "true"
                 ELSE "false"
    /\ UNCHANGED <<ev_alert, ev_price, ev_now, ev_pre, ev_notified>>
    /\ UNCHANGED <<engVars, hubVars, notVars, gateVars, storeVars, wsVars>>

\* _check_alert(session, alert, current_price)
EvalCheckAlert ==
    /\ ev_op = "input"
    /\ LET r == check_alert(ev_alert, ev_price, ev_now)
       IN  /\ ev_alert' = r.alert
           /\ ev_notified' = r.notified
           /\ ev_ret' = IF r.raised THEN "raise" ELSE "ok"
    /\ ev_pre' = ev_alert
    /\ ev_op' = "check_alert"
    /\ UNCHANGED <<ev_price, ev_now>>
    /\ UNCHANGED <<engVars, hubVars, notVars, gateVars, storeVars, wsVars>>

\* a later quote: the same alert is evaluated again at a later time
EvalQuote ==
    /\ ev_op # "input"
    /\ ev_now < MaxNow
    /\ ev_now' = ev_now + 1
    /\ ev_price' \in Prices
    /\ ev_op' = "input"
    /\ ev_ret' = "none"
    /\ ev_notified' = 0
    /\ ev_pre' = ev_alert
    /\ UNCHANGED ev_alert
    /\ UNCHANGED <<engVars, hubVars, notVars, gateVars, storeVars, wsVars>>

EvalNext == EvalShouldTrigger \/ EvalCheckAlert \/ EvalQuote

SpecEval == EvalInit /\ [][EvalNext]_vars

(***************************************************************************)
(* The monitoring engine: the table of alerts, the task running            *)
(* PriceMonitor.start(), and MonitorScheduler.  A task moves from one      *)
(* await to the next in one step; other coroutines run in between.         *)
(***************************************************************************)

\* the evaluator harness is not used by the engine
EvalIdle ==
    /\ ev_alert = NoRow
    /\ ev_price = None
    /\ ev_now = 0
    /\ ev_op = "idle"
    /\ ev_ret = "none"
    /\ ev_pre = NoRow
    /\ ev_notified = 0

\* not task.done()
Live(s) == task[s].pc # "free"

LiveSlots == {s \in Slots : Live(s)}

\* orders in which SELECT without ORDER BY may return the rows of ids
Orders(ids) ==
    {o \in [1 .. Cardinality(ids) -> ids] :
        \A i, j \in 1 .. Cardinality(ids) : o[i] = o[j] => i = j}

\* key = (alert.symbol, alert.asset_type)
GroupKey(row) == <<row.symbol, row.asset_type>>

\* faulty variant of group_alerts_by_symbol: one group for all alerts
group_alerts_by_symbol_single(order, rows) == <<order>>

\* _group_alerts_by_symbol: the groups in the order in which their keys first
\* appear, each group in the order of the loaded list
group_alerts_by_symbol(order, rows) ==
    LET keys == {GroupKey(rows[order[i]]) : i \in 1 .. Len(order)}
        first(k) == CHOOSE i \in 1 .. Len(order) :
                        /\ GroupKey(rows[order[i]]) = k
                        /\ \A j \in 1 .. (i - 1) : GroupKey(rows[order[j]]) # k
        keyAt(p) == CHOOSE k \in keys :
                        Cardinality({k2 \in keys : first(k2) < first(k)}) = p - 1
    IN  [p \in 1 .. Cardinality(keys) |->
            SelectSeq(order, LAMBDA a : GroupKey(rows[a]) = keyAt(p))]

\* the key of the group being checked
CurrentKey(t) == GroupKey(t.sess[Head(t.groups)[1]])

\* the for loop of _monitor_cycle moves to the next group, or, after the
\* last one, to await session.commit()
AfterGroup(t) ==
    IF Tail(t.groups) = <<>>
    THEN [t EXCEPT !.groups = <<>>, !.gi = 0, !.price = None, !.pc = "commit"]
    ELSE [t EXCEPT !.groups = Tail(t.groups), !.gi = 0, !.price = None,
                   !.pc = "fetch"]

\* faulty variant of OnCycleError: the exception leaves start() and the task ends
OnCycleError_exits(t, how) == IdleTask

\* except Exception in start(): the error is logged and the loop sleeps;
\* leaving the session block without commit rolls the transaction back
OnCycleError(t, how) ==
    [t EXCEPT !.pc = "sleep", !.sleep_for = ERROR_SLEEP, !.flushed = {},
              !.groups = <<>>, !.gi = 0, !.price = None, !.c_end = how]

\* faulty variant of AfterFetchFail: the failed fetch leaves _monitor_cycle
AfterFetchFail_aborts(t) == OnCycleError(t, "aborted")

\* except Exception around get_price: logged, return; the caller's loop
\* goes on with the next group
AfterFetchFail(t) == AfterGroup(t)

\* the for loop of _check_symbol_alerts from its i-th alert up to the next
\* await: alerts that do not trigger are passed without effect, an exception
\* of the evaluation leaves the loop and is logged by _monitor_cycle, and an
\* alert that triggers is stamped and waits in notify_user.  In a session
\* whose flush failed the rows are expired and reading one raises.
EvalFrom(t, i, now) ==
    LET g == Head(t.groups)
        res(j) == check_alert(t.sess[g[j]], t.price, now)
        hits == {j \in i .. Len(g) :
                    t.broken \/ res(j).raised \/ res(j).notified = 1}
        called(j) == t.c_checked \cup {g[k] : k \in i .. j}
    IN  IF hits = {}
        THEN AfterGroup([t EXCEPT !.c_checked = called(Len(g))])
        ELSE LET j == CHOOSE m \in hits : \A n \in hits : m <= n
             IN  IF t.broken \/ res(j).raised
                 THEN AfterGroup([t EXCEPT !.c_raised = @ \cup {g[j]},
                                           !.c_checked = called(j)])
                 ELSE [t EXCEPT !.sess[g[j]] = res(j).alert, !.gi = j,
                                !.pc = "notify", !.c_checked = called(j)]

\* a cycle begins: the while test was true, _monitor_cycle opens a session
\* and awaits its query
BeginCycle(t) ==
    [IdleTask EXCEPT !.pc = "load", !.c_prev = t.c_end,
                     !.c_prevfail = t.c_tried \ {f[1] : f \in t.c_fetched}]

\* the call of stop() that awaits the task in slot s is resumed when the
\* task has ended: wait_for returns, or raises TimeoutError after its own
\* cancellation, or re-raises the CancelledError of a task that somebody
\* else cancelled
Resumed(s, cause) ==
    IF stopper.on = s /\ stopper.st = "waiting"
    THEN [stopper EXCEPT !.st = IF cause = "cancelled"
                                THEN "resumed_cancelled" ELSE "resumed_ok"]
    ELSE IF stopper.on = s /\ stopper.st = "cancelling"
    THEN [stopper EXCEPT !.st = "resumed_timeout"]
    ELSE stopper

\* the coroutine of the task in slot s has ended
Finish(s, cause) ==
    /\ task' = [task EXCEPT ![s] = IdleTask]
    /\ stopper' = Resumed(s, cause)
    /\ hist' = [hist EXCEPT !.exit_cause = cause]

\* the task runs for the first time
TaskFirstRun(s) ==
    /\ task[s].pc = "created" /\ ~task[s].cancel
    /\ clock < MaxNow
    /\ running' = TRUE
    /\ clock' = clock + 1
    /\ task' = [task EXCEPT ![s] = BeginCycle(@)]
    /\ UNCHANGED <<db, interval, monitor_task, stopper, sched_log, hist>>
    /\ UNCHANGED <<evalVars, hubVars, notVars, gateVars, storeVars, wsVars>>

\* the sleep is over and self.running is true: the next cycle
LoopAgain(s) ==
    /\ task[s].pc = "sleep" /\ ~task[s].cancel
    /\ running
    /\ clock < MaxNow
    /\ clock' = clock + 1
    /\ task' = [task EXCEPT ![s] = BeginCycle(@)]
    /\ UNCHANGED <<db, running, interval, monitor_task, stopper, sched_log, hist>>
    /\ UNCHANGED <<evalVars, hubVars, notVars, gateVars, storeVars, wsVars>>

\* the sleep is over and self.running is false: start() returns
LoopExit(s) ==
    /\ task[s].pc = "sleep" /\ ~task[s].cancel
    /\ ~running
    /\ Finish(s, "flag")
    /\ UNCHANGED <<db, clock, running, interval, monitor_task, sched_log>>
    /\ UNCHANGED <<evalVars, hubVars, notVars, gateVars, storeVars, wsVars>>

\* _get_active_alerts returned no row: return, then sleep(check_interval)
LoadEmpty(s) ==
    /\ task[s].pc = "load" /\ ~task[s].cancel
    /\ {a \in AlertIds : db[a].status = ACTIVE} = {}
    /\ task' = [task EXCEPT ![s] = [@ EXCEPT !.pc = "sleep",
                                      !.sleep_for = interval,
                                      !.c_end = "empty"]]
    /\ UNCHANGED <<db, clock, running, interval, monitor_task, stopper, sched_log, hist>>
    /\ UNCHANGED <<evalVars, hubVars, notVars, gateVars, storeVars, wsVars>>

\* _get_active_alerts returned the active rows in some order; they are
\* grouped and the price of the first group is requested
LoadAlerts(s) ==
    /\ task[s].pc = "load" /\ ~task[s].cancel
    /\ LET active == {a \in AlertIds : db[a].status = ACTIVE}
       IN  /\ active # {}
           /\ \E order \in Orders(active) :
                task' = [task EXCEPT ![s] =
                    [@ EXCEPT !.sess = [a \in AlertIds |->
                                         IF a \in active THEN db[a] ELSE NoRow],
                              !.groups = group_alerts_by_symbol(order, db),
                              !.pc = "fetch"]]
    /\ UNCHANGED <<db, clock, running, interval, monitor_task, stopper, sched_log, hist>>
    /\ UNCHANGED <<evalVars, hubVars, notVars, gateVars, storeVars, wsVars>>

\* the query raised: the store is unreachable
LoadFails(s) ==
    /\ task[s].pc = "load" /\ ~task[s].cancel
    /\ task' = [task EXCEPT ![s] = OnCycleError(@, "load_failed")]
    /\ UNCHANGED <<db, clock, running, interval, monitor_task, stopper, sched_log, hist>>
    /\ UNCHANGED <<evalVars, hubVars, notVars, gateVars, storeVars, wsVars>>

\* faulty variant of CastOnFetch: a price update only for a group with an
\* alert that triggers
CastOnFetch_if_triggering(t, p) ==
    IF \E i \in 1 .. Len(Head(t.groups)) :
           check_alert(t.sess[Head(t.groups)[i]], p, 0).notified = 1
    THEN Append(t.c_cast, <<CurrentKey(t), p>>)
    ELSE t.c_cast

\* await manager.send_price_update(symbol, current_price, asset_type): the
\* price updates handed to the hub in this cycle, after this call
CastOnFetch(t, p) == Append(t.c_cast, <<CurrentKey(t), p>>)

\* get_price returned p; the price update is handed to the hub
FetchPrice(s, p) ==
    /\ task[s].pc = "fetch" /\ ~task[s].cancel
    /\ task' = [task EXCEPT ![s] =
                 [@ EXCEPT !.price = p, !.pc = "broadcast",
                           !.c_cast = CastOnFetch(task[s], p),
                           !.c_tried = @ \cup {CurrentKey(task[s])},
                           !.c_fetched = @ \cup {<<CurrentKey(task[s]), p>>}]]
    /\ UNCHANGED <<db, clock, running, interval, monitor_task, stopper, sched_log, hist>>
    /\ UNCHANGED <<evalVars, hubVars, notVars, gateVars, storeVars, wsVars>>

\* get_price raised (provider error, timeout, unknown symbol)
FetchFails(s) ==
    /\ task[s].pc = "fetch" /\ ~task[s].cancel
    /\ task' = [task EXCEPT ![s] =
                 AfterFetchFail([@ EXCEPT
                     !.c_tried = @ \cup {CurrentKey(task[s])}])]
    /\ UNCHANGED <<db, clock, running, interval, monitor_task, stopper, sched_log, hist>>
    /\ UNCHANGED <<evalVars, hubVars, notVars, gateVars, storeVars, wsVars>>

\* send_price_update returned: the alerts of the group are evaluated
Broadcast(s) ==
    /\ task[s].pc = "broadcast" /\ ~task[s].cancel
    /\ task' = [task EXCEPT ![s] =
                 EvalFrom([@ EXCEPT !.c_evald = @ \cup {CurrentKey(task[s])}],
                          1, clock)]
    /\ UNCHANGED <<db, clock, running, interval, monitor_task, stopper, sched_log, hist>>
    /\ UNCHANGED <<evalVars, hubVars, notVars, gateVars, storeVars, wsVars>>

\* the alert notify_user is running for
Dispatching(t) == Head(t.groups)[t.gi]

\* notify_user returned: await session.flush()
Notify(s) ==
    /\ task[s].pc = "notify" /\ ~task[s].cancel
    /\ task' = [task EXCEPT ![s] =
                 [@ EXCEPT !.pc = "flush"]]
    /\ hist' = [hist EXCEPT !.dispatched[Dispatching(task[s])] = @ + 1]
    /\ UNCHANGED <<db, clock, running, interval, monitor_task, stopper, sched_log>>
    /\ UNCHANGED <<evalVars, hubVars, notVars, gateVars, storeVars, wsVars>>

\* the flush sent the UPDATE of the stamped row; the loop goes on
FlushOk(s) ==
    /\ task[s].pc = "flush" /\ ~task[s].cancel
    /\ task' = [task EXCEPT ![s] =
                 EvalFrom([@ EXCEPT !.flushed =
                               @ \cup {Head(task[s].groups)[task[s].gi]}],
                          task[s].gi + 1, clock)]
    /\ UNCHANGED <<db, clock, running, interval, monitor_task, stopper, sched_log, hist>>
    /\ UNCHANGED <<evalVars, hubVars, notVars, gateVars, storeVars, wsVars>>

\* the flush raised: the transaction is rolled back, the session is unusable,
\* and the exception is logged by _monitor_cycle
FlushFails(s) ==
    /\ task[s].pc = "flush" /\ ~task[s].cancel
    /\ task' = [task EXCEPT ![s] =
                 AfterGroup([@ EXCEPT !.broken = TRUE, !.flushed = {}])]
    /\ UNCHANGED <<db, clock, running, interval, monitor_task, stopper, sched_log, hist>>
    /\ UNCHANGED <<evalVars, hubVars, notVars, gateVars, storeVars, wsVars>>

\* session.commit() succeeded: the flushed rows are written, then
\* sleep(check_interval)
CommitOk(s) ==
    /\ task[s].pc = "commit" /\ ~task[s].cancel
    /\ ~task[s].broken
    /\ db' = [a \in AlertIds |->
                IF a \in task[s].flushed
                THEN [db[a] EXCEPT
                        !.status = task[s].sess[a].status,
                        !.triggered_price = task[s].sess[a].triggered_price,
                        !.triggered_at = task[s].sess[a].triggered_at]
                ELSE db[a]]
    /\ task' = [task EXCEPT ![s] =
                 [@ EXCEPT !.flushed = {}, !.pc = "sleep",
                           !.sleep_for = interval,
                           !.c_end = "committed"]]
    /\ UNCHANGED <<clock, running, interval, monitor_task, stopper, sched_log, hist>>
    /\ UNCHANGED <<evalVars, hubVars, notVars, gateVars, storeVars, wsVars>>

\* session.commit() raised
CommitFails(s) ==
    /\ task[s].pc = "commit" /\ ~task[s].cancel
    /\ task' = [task EXCEPT ![s] = OnCycleError(@, "commit_failed")]
    /\ UNCHANGED <<db, clock, running, interval, monitor_task, stopper, sched_log, hist>>
    /\ UNCHANGED <<evalVars, hubVars, notVars, gateVars, storeVars, wsVars>>

\* CancelledError is raised at the await the task is suspended in; it is not
\* an Exception, so no handler catches it, and the task ends
Cancelled(s) ==
    /\ Live(s) /\ task[s].cancel
    /\ Finish(s, "cancelled")
    /\ UNCHANGED <<db, clock, running, interval, monitor_task, sched_log>>
    /\ UNCHANGED <<evalVars, hubVars, notVars, gateVars, storeVars, wsVars>>

(***************************************************************************)
(* MonitorScheduler                                                        *)
(***************************************************************************)

\* faulty variant of CanCreate: start() creates a task whatever monitor_task is
CanCreate_always == TRUE

\* self.monitor_task is None or self.monitor_task.done()
CanCreate == monitor_task = 0 \/ ~Live(monitor_task)

\* MonitorScheduler.start()
SchedStart ==
    /\ IF CanCreate
       THEN /\ \E s \in Slots :
                /\ ~Live(s)
                /\ \A r \in Slots : r < s => Live(r)
                /\ task' = [task EXCEPT ![s] =
                             [IdleTask EXCEPT !.pc = "created"]]
                /\ monitor_task' = s
            /\ sched_log' = "started"
            /\ stopper' = [stopper EXCEPT
                             !.started_during = (stopper.st # "idle")]
            /\ hist' = [hist EXCEPT !.last_stop = "none",
                                    !.last_call = "start"]
       ELSE /\ sched_log' = "already_running"
            /\ hist' = [hist EXCEPT !.last_call = "start"]
            /\ UNCHANGED <<task, monitor_task, stopper>>
    /\ UNCHANGED <<db, clock, running, interval>>
    /\ UNCHANGED <<evalVars, hubVars, notVars, gateVars, storeVars, wsVars>>

\* MonitorScheduler.stop() up to its await: price_monitor.stop() clears the
\* flag and wait_for suspends the caller; without a live task stop() returns
\* at once
SchedStop ==
    /\ stopper.st = "idle"
    /\ IF monitor_task # 0 /\ Live(monitor_task)
       THEN /\ running' = FALSE
            /\ stopper' = [st |-> "waiting", on |-> monitor_task,
                           started_during |-> FALSE]
            /\ hist' = [hist EXCEPT !.stop_called = TRUE,
                                    !.last_stop = "none",
                                    !.last_call = "stop"]
       ELSE /\ hist' = [hist EXCEPT !.stop_called = TRUE,
                                    !.last_call = "stop"]
            /\ UNCHANGED <<running, stopper>>
    /\ UNCHANGED <<db, clock, interval, monitor_task, task, sched_log>>
    /\ UNCHANGED <<evalVars, hubVars, notVars, gateVars, storeVars, wsVars>>

\* faulty variant of WaitForTimeout: the timeout does not wait for the cancelled task
WaitForTimeout_no_wait ==
    /\ task' = [task EXCEPT ![stopper.on] = [@ EXCEPT !.cancel = TRUE]]
    /\ stopper' = [stopper EXCEPT !.st = "resumed_timeout"]

\* wait_for: the timeout elapsed before the task finished; the task is
\* cancelled and wait_for waits until it has ended
WaitForTimeout ==
    /\ task' = [task EXCEPT ![stopper.on] = [@ EXCEPT !.cancel = TRUE]]
    /\ stopper' = [stopper EXCEPT !.st = "cancelling"]

StopTimeout ==
    /\ stopper.st = "waiting"
    /\ WaitForTimeout
    /\ UNCHANGED <<db, clock, running, interval, monitor_task, sched_log, hist>>
    /\ UNCHANGED <<evalVars, hubVars, notVars, gateVars, storeVars, wsVars>>

\* stop() is resumed.  After TimeoutError: the warning and
\* self.monitor_task.cancel(), which reads monitor_task again; then
\* "monitor_scheduler_stopped".  A CancelledError leaves stop() at once.
StopReturn ==
    /\ stopper.st \in {"resumed_ok", "resumed_timeout", "resumed_cancelled"}
    /\ LET timeout == stopper.st = "resumed_timeout"
           raised == stopper.st = "resumed_cancelled"
       IN  /\ task' = IF timeout /\ monitor_task # 0 /\ Live(monitor_task)
                      THEN [task EXCEPT ![monitor_task] =
                               [@ EXCEPT !.cancel = TRUE]]
                      ELSE task
           /\ hist' = [hist EXCEPT
                         !.warned = @ \/ timeout,
                         !.last_stop =
                             IF stopper.started_during THEN @
                             ELSE IF timeout THEN "timeout"
                             ELSE IF raised THEN "raised" ELSE "ok"]
           /\ sched_log' = IF raised THEN sched_log ELSE "stopped"
    /\ stopper' = IdleStopper
    /\ UNCHANGED <<db, clock, running, interval, monitor_task>>
    /\ UNCHANGED <<evalVars, hubVars, notVars, gateVars, storeVars, wsVars>>

(***************************************************************************)
(* Specifications                                                          *)
(***************************************************************************)

\* the steps of start() while the loop runs
CycleStep(s) ==
    \/ TaskFirstRun(s)
    \/ LoopAgain(s)
    \/ LoadEmpty(s)
    \/ LoadAlerts(s)
    \/ LoadFails(s)
    \/ \E p \in MonitorPrices : FetchPrice(s, p)
    \/ FetchFails(s)
    \/ Broadcast(s)
    \/ Notify(s)
    \/ FlushOk(s)
    \/ FlushFails(s)
    \/ CommitOk(s)
    \/ CommitFails(s)

\* tables of stored alerts: ids are given in increasing order
Tables ==
    {tb \in [AlertIds -> StoredAlerts \cup {NoRow}] :
        \A a, b \in AlertIds : (a < b /\ tb[a] = NoRow) => tb[b] = NoRow}

\* the application has started (main.py lifespan called start_scheduler())
\* over a table of alerts
Booted ==
    /\ EvalIdle
    /\ HubInit
    /\ GateInit
    /\ db \in Tables
    /\ clock = 0
    /\ running = FALSE
    /\ monitor_task = 1
    /\ task = [s \in Slots |->
                 IF s = 1 THEN [IdleTask EXCEPT !.pc = "created"] ELSE IdleTask]
    /\ stopper = IdleStopper
    /\ sched_log = "started"
    /\ hist = [exit_cause |-> "none", last_stop |-> "none",
               warned |-> FALSE, stop_called |-> FALSE,
               last_call |-> "start",
               dispatched |-> [a \in AlertIds |-> 0]]

\* PriceMonitor.__init__ leaves check_interval at its default
Init ==
    /\ Booted
    /\ interval = check_interval

\* the values of price_monitor.check_interval the loop is run with: the
\* default and a shorter one
Intervals == {3, check_interval}

\* the loop started with check_interval set to one of these values
IntervalInit ==
    /\ Booted
    /\ interval \in Intervals

\* the monitoring cycles of the running loop
Next == \E s \in Slots : CycleStep(s)

Spec == Init /\ [][Next]_vars

SpecInterval == IntervalInit /\ [][Next]_vars

\* the scheduler handles a table with at most one alert
SchedTables ==
    {tb \in Tables : \A a \in AlertIds :
        tb[a] # NoRow => (a = 1 /\ tb[a].alert_type = ABOVE
                            /\ tb[a].symbol = "BTC")}

\* the application is constructed: no task yet
SchedInit ==
    /\ EvalIdle
    /\ Constructed
    /\ db \in SchedTables

\* start() and stop() of the scheduler called at any time, one stop() at a
\* time, while the tasks they create run
SchedNext ==
    \/ \E s \in Slots : CycleStep(s)
    \/ \E s \in Slots : LoopExit(s)
    \/ \E s \in Slots : Cancelled(s)
    \/ SchedStart
    \/ SchedStop
    \/ StopTimeout
    \/ StopReturn

SpecSched == SchedInit /\ [][SchedNext]_vars

\* the event loop runs every callback that is ready: the timer of wait_for,
\* the cancellation of a task, the resumption of stop()
SpecSchedFair ==
    /\ SpecSched
    /\ WF_vars(StopTimeout)
    /\ WF_vars(\E s \in Slots : Cancelled(s))
    /\ WF_vars(\E s \in Slots : LoopExit(s))
    /\ WF_vars(StopReturn)

(***************************************************************************)
(* The Connection Hub (websocket/manager.py) and the coroutines that use   *)
(* it: websocket_endpoint of each connection (websocket/router.py) and the *)
(* monitor.  The methods without await are atomic; send_personal_message   *)
(* is suspended in every send_json, and other coroutines run meanwhile.    *)
(***************************************************************************)

SeqSet(q) == {q[i] : i \in 1 .. Len(q)}

\* the connections in self.websocket_users
Registered(h) == {c \in Conns : h.websocket_users[c] # 0}

\* connect() after accept: the list of the user is created if needed, the
\* connection appended, the reverse lookup set
register(h, c, u) ==
    [h EXCEPT !.active_connections[u] = Append(@, c),
              !.active_keys = @ \cup {u},
              !.websocket_users[c] = u]

\* the user removed from every watcher set, empty sets deleted
without_watcher(w, u) ==
    [k \in {x \in DOMAIN w : w[x] \ {u} # {}} |-> w[k] \ {u}]

\* faulty variant of disconnect: the watches of a user are never removed
disconnect_keeps_watches(h, c) ==
    LET u == h.websocket_users[c]
    IN  IF u = 0 THEN h
        ELSE [h EXCEPT !.active_connections[u] =
                           SelectSeq(@, LAMBDA x : x # c),
                       !.active_keys =
                           IF Len(h.active_connections[u]) <= 1
                           THEN @ \ {u} ELSE @,
                       !.websocket_users[c] = 0]

\* faulty variant of disconnect: the list that became empty is not deleted
disconnect_keeps_list(h, c) ==
    LET u == h.websocket_users[c]
        lst == SelectSeq(h.active_connections[u], LAMBDA x : x # c)
    IN  IF u = 0 THEN h
        ELSE [h EXCEPT !.active_connections[u] = lst,
                       !.symbol_watchers =
                           IF lst = <<>> THEN without_watcher(@, u) ELSE @,
                       !.websocket_users[c] = 0]

\* disconnect(websocket): nothing for an unknown connection; otherwise the
\* connection leaves the list of its user, a list that became empty is
\* deleted together with the watches of the user, and the reverse lookup
\* entry is deleted
disconnect(h, c) ==
    LET u == h.websocket_users[c]
        lst == SelectSeq(h.active_connections[u], LAMBDA x : x # c)
    IN  IF u = 0 THEN h
        ELSE IF u \notin h.active_keys
        THEN [h EXCEPT !.websocket_users[c] = 0]
        ELSE [h EXCEPT !.active_connections[u] = lst,
                       !.active_keys = IF lst = <<>> THEN @ \ {u} ELSE @,
                       !.symbol_watchers =
                           IF lst = <<>> THEN without_watcher(@, u) ELSE @,
                       !.websocket_users[c] = 0]

\* faulty variant of subscribe_to_symbol: a second subscription removes
\* the first
subscribe_to_symbol_toggles(h, u, symbol) ==
    LET k == Upper(symbol)
        w == h.symbol_watchers
        old == IF k \in DOMAIN w THEN w[k] ELSE {}
        new == IF u \in old THEN old \ {u} ELSE old \cup {u}
    IN  [h EXCEPT !.symbol_watchers =
            [x \in {y \in DOMAIN w \cup {k} : y # k \/ new # {}} |->
                IF x = k THEN new ELSE w[x]]]

\* subscribe_to_symbol(user_id, symbol)
subscribe_to_symbol(h, u, symbol) ==
    LET k == Upper(symbol)
        w == h.symbol_watchers
    IN  [h EXCEPT !.symbol_watchers =
            [x \in DOMAIN w \cup {k} |->
                IF x = k
                THEN (IF k \in DOMAIN w THEN w[k] ELSE {}) \cup {u}
                ELSE w[x]]]

\* unsubscribe_from_symbol(user_id, symbol)
unsubscribe_from_symbol(h, u, symbol) ==
    LET k == Upper(symbol)
        w == h.symbol_watchers
    IN  IF k \notin DOMAIN w THEN h
        ELSE [h EXCEPT !.symbol_watchers =
                [x \in {y \in DOMAIN w : y # k \/ w[k] \ {u} # {}} |->
                    IF x = k THEN w[k] \ {u} ELSE w[x]]]

\* get_watching_users(symbol)
get_watching_users(h, symbol) ==
    IF Upper(symbol) \in DOMAIN h.symbol_watchers
    THEN h.symbol_watchers[Upper(symbol)] ELSE {}

\* faulty variant of BroadcastKey: the symbol is looked up as it is written
BroadcastKey_raw(symbol) == symbol

\* broadcast_to_symbol_watchers: symbol = symbol.upper()
BroadcastKey(symbol) == Upper(symbol)

(***************************************************************************)
(* send_personal_message: `for connection in self.active_connections[u]`   *)
(* iterates over the list object itself.  The iterator keeps a position;   *)
(* after each send it reads the next position of the list as it is then.   *)
(* A list that was emptied and deleted stays empty for its iterators, even *)
(* when the user connects again (a new list is created).                   *)
(***************************************************************************)

\* the iterator has another connection
HasNext(job, h) ==
    /\ ~job.orphan
    /\ job.idx + 1 <= Len(h.active_connections[job.user])

\* the call for user u up to its first send_json; NoJob when the user has
\* no connection
StartJob(h, u) ==
    IF h.active_connections[u] = <<>> THEN NoJob
    ELSE [user |-> u, idx |-> 1, cur |-> h.active_connections[u][1],
          dead |-> <<>>, orphan |-> FALSE,
          at_start |-> SeqSet(h.active_connections[u]), ok |-> {}]

\* send_json returned or raised: a connection whose send raised is dead
AfterSend(job, success) ==
    [job EXCEPT !.ok = IF success THEN @ \cup {job.cur} ELSE @,
                !.dead = IF success THEN @ ELSE Append(@, job.cur)]

\* faulty variant of Advance: the same connection is sent to again
Advance_again(job, h) == job

\* the loop goes on with the next position
Advance(job, h) ==
    IF job.idx + 1 <= Len(h.active_connections[job.user])
    THEN [job EXCEPT !.idx = @ + 1,
                     !.cur = h.active_connections[job.user][job.idx + 1]]
    ELSE job

\* for conn in dead_connections: self.disconnect(conn)
RECURSIVE DisconnectAll(_, _)
DisconnectAll(h, dead) ==
    IF dead = <<>> THEN h
    ELSE DisconnectAll(disconnect(h, Head(dead)), Tail(dead))

\* the list a job iterates over was deleted
Orphan(job, h) ==
    IF job.user # 0 /\ h.active_connections[job.user] = <<>>
    THEN [job EXCEPT !.orphan = TRUE] ELSE job

\* the jobs of the other coroutines after the registries became h
EpAfter(e, h) == [c \in Conns |-> [e[c] EXCEPT !.job = Orphan(@, h)]]

MonAfter(m, h) == [m EXCEPT !.job = Orphan(@, h)]

\* the users of a broadcast that are still to be served, without the
\* leading ones for which send_personal_message returns at once
RECURSIVE DropOffline(_, _)
DropOffline(h, users) ==
    IF users = <<>> THEN <<>>
    ELSE IF h.active_connections[Head(users)] = <<>>
    THEN DropOffline(h, Tail(users))
    ELSE users

\* list(self.symbol_watchers[symbol]) of broadcast_to_symbol_watchers, as a
\* set; empty when the symbol has no entry
broadcast_snapshot(h, symbol) ==
    IF BroadcastKey(symbol) \in DOMAIN h.symbol_watchers
    THEN h.symbol_watchers[BroadcastKey(symbol)] ELSE {}

(***************************************************************************)
(* websocket_endpoint of connection c.                                     *)
(***************************************************************************)

\* manager.connect up to the first send of the welcome message
Accept(c) ==
    /\ ep[c].pc = "new"
    /\ LET h2 == register(hub, c, Owner(c))
       IN  /\ hub' = h2
           /\ ep' = [ep EXCEPT ![c] = [pc |-> "welcome",
                                       job |-> StartJob(h2, Owner(c))]]
    /\ UNCHANGED <<hmon, evalVars, engVars, notVars, gateVars, storeVars, wsVars>>

\* one send of the welcome message returned or raised
WelcomeSend(c, success) ==
    /\ ep[c].pc = "welcome"
    /\ LET j1 == AfterSend(ep[c].job, success)
           h2 == DisconnectAll(hub, j1.dead)
       IN  IF HasNext(j1, hub)
           THEN /\ ep' = [ep EXCEPT ![c].job = Advance(j1, hub)]
                /\ UNCHANGED <<hub, hmon>>
           ELSE /\ hub' = h2
                /\ ep' = [EpAfter(ep, h2) EXCEPT
                             ![c] = [pc |-> "recv", job |-> NoJob]]
                /\ hmon' = MonAfter(hmon, h2)
    /\ UNCHANGED <<evalVars, engVars, notVars, gateVars, storeVars, wsVars>>

\* {"type": "subscribe", "symbol": raw}
RecvSubscribe(c, raw) ==
    /\ ep[c].pc = "recv"
    /\ hub' = subscribe_to_symbol(hub, Owner(c), Upper(raw))
    /\ ep' = [ep EXCEPT ![c].pc = "reply"]
    /\ UNCHANGED <<hmon, evalVars, engVars, notVars, gateVars, storeVars, wsVars>>

\* {"type": "unsubscribe", "symbol": raw}
RecvUnsubscribe(c, raw) ==
    /\ ep[c].pc = "recv"
    /\ hub' = unsubscribe_from_symbol(hub, Owner(c), Upper(raw))
    /\ ep' = [ep EXCEPT ![c].pc = "reply"]
    /\ UNCHANGED <<hmon, evalVars, engVars, notVars, gateVars, storeVars, wsVars>>

\* get_subscriptions, ping, an unknown type or a subscribe without symbol
RecvOther(c) ==
    /\ ep[c].pc = "recv"
    /\ ep' = [ep EXCEPT ![c].pc = "reply"]
    /\ UNCHANGED <<hub, hmon, evalVars, engVars, notVars, gateVars, storeVars, wsVars>>

\* receive_json raises WebSocketDisconnect or another exception
RecvDisconnect(c) ==
    /\ ep[c].pc = "recv"
    /\ LET h2 == disconnect(hub, c)
       IN  /\ hub' = h2
           /\ ep' = [EpAfter(ep, h2) EXCEPT ![c].pc = "closed"]
           /\ hmon' = MonAfter(hmon, h2)
    /\ UNCHANGED <<evalVars, engVars, notVars, gateVars, storeVars, wsVars>>

\* the reply was sent
ReplyOk(c) ==
    /\ ep[c].pc = "reply"
    /\ ep' = [ep EXCEPT ![c].pc = "recv"]
    /\ UNCHANGED <<hub, hmon, evalVars, engVars, notVars, gateVars, storeVars, wsVars>>

\* send_json of the reply raised
ReplyFail(c) ==
    /\ ep[c].pc = "reply"
    /\ LET h2 == disconnect(hub, c)
       IN  /\ hub' = h2
           /\ ep' = [EpAfter(ep, h2) EXCEPT ![c].pc = "closed"]
           /\ hmon' = MonAfter(hmon, h2)
    /\ UNCHANGED <<evalVars, engVars, notVars, gateVars, storeVars, wsVars>>

(***************************************************************************)
(* The calls of the monitor: send_price_update for a symbol and            *)
(* send_alert_notification for a user.  Each call is one event.            *)
(***************************************************************************)

\* send_price_update(symbol): the watcher set is copied into a list, in
\* some order, and the first user with a connection is served
BroadcastStart(symbol) ==
    /\ hmon.pc = "idle"
    /\ \E order \in Orders(broadcast_snapshot(hub, symbol)) :
         LET rest == DropOffline(hub, order)
         IN  IF rest = <<>>
             THEN hmon' = IdleMon
             ELSE hmon' = [pc |-> "bcast", users |-> Tail(rest),
                           job |-> StartJob(hub, Head(rest)),
                           snapshot |-> broadcast_snapshot(hub, symbol),
                           conns_at_start |-> Registered(hub),
                           tried |-> {}]
    /\ UNCHANGED <<hub, ep, evalVars, engVars, notVars, gateVars, storeVars, wsVars>>

\* send_alert_notification(user_id, ...) up to its first send, or to its
\* return when the user has no connection
send_alert_notification(h, u) ==
    IF h.active_connections[u] = <<>> THEN IdleMon
    ELSE [pc |-> "notify", users |-> <<>>, job |-> StartJob(h, u),
          snapshot |-> {}, conns_at_start |-> Registered(h), tried |-> {}]

\* an alert notification for user u
NotifyStart(u) ==
    /\ hmon.pc = "idle"
    /\ hmon' = send_alert_notification(hub, u)
    /\ UNCHANGED <<hub, ep, evalVars, engVars, notVars, gateVars, storeVars, wsVars>>

\* one send of the event returned or raised
MonSend(success) ==
    /\ hmon.pc \in {"bcast", "notify"}
    /\ LET j1 == AfterSend(hmon.job, success)
           h2 == DisconnectAll(hub, j1.dead)
           rest == DropOffline(h2, hmon.users)
       IN  IF HasNext(j1, hub)
           THEN /\ hmon' = [hmon EXCEPT !.job = Advance(j1, hub),
                                        !.tried = @ \cup {j1.cur}]
                /\ UNCHANGED <<hub, ep>>
           ELSE /\ hub' = h2
                /\ ep' = EpAfter(ep, h2)
                /\ IF hmon.pc = "bcast" /\ rest # <<>>
                   THEN hmon' = [hmon EXCEPT
                                    !.users = Tail(rest),
                                    !.job = StartJob(h2, Head(rest)),
                                    !.tried = @ \cup {j1.cur}]
                   ELSE hmon' = IdleMon
    /\ UNCHANGED <<evalVars, engVars, notVars, gateVars, storeVars, wsVars>>

\* the application has started: no connection yet, the table is empty and
\* the monitor has not been started
HubStart == EvalIdle /\ EngInit

\* the endpoints alone: connections, welcome messages and client messages
HubNext ==
    \/ \E c \in Conns : Accept(c)
    \/ \E c \in Conns, success \in BOOLEAN : WelcomeSend(c, success)
    \/ \E c \in Conns, raw \in RawSymbols : RecvSubscribe(c, raw)
    \/ \E c \in Conns, raw \in RawSymbols : RecvUnsubscribe(c, raw)
    \/ \E c \in Conns : RecvOther(c)
    \/ \E c \in Conns : RecvDisconnect(c)
    \/ \E c \in Conns : ReplyOk(c)
    \/ \E c \in Conns : ReplyFail(c)

SpecHub == HubStart /\ [][HubNext]_vars

\* the endpoints and the monitor, for one symbol
CastNext ==
    \/ \E c \in Conns : Accept(c)
    \/ \E c \in Conns, success \in BOOLEAN : WelcomeSend(c, success)
    \/ \E c \in Conns, raw \in CastSymbols : RecvSubscribe(c, raw)
    \/ \E c \in Conns, raw \in CastSymbols : RecvUnsubscribe(c, raw)
    \/ \E c \in Conns : RecvOther(c)
    \/ \E c \in Conns : RecvDisconnect(c)
    \/ \E c \in Conns : ReplyOk(c)
    \/ \E c \in Conns : ReplyFail(c)
    \/ \E symbol \in CastKeys : BroadcastStart(symbol)
    \/ \E u \in Users : NotifyStart(u)
    \/ \E success \in BOOLEAN : MonSend(success)

SpecCast == HubStart /\ [][CastNext]_vars

\* the registries agree with each other
HubTypeOK ==
    /\ \A u \in Users :
         SeqSet(hub.active_connections[u])
            = {c \in Conns : hub.websocket_users[c] = u}
    /\ \A k \in DOMAIN hub.symbol_watchers :
         hub.symbol_watchers[k] # {} /\ hub.symbol_watchers[k] \subseteq Users

(***************************************************************************)
(* AlertChecker.notify_user, the dispatcher, for one triggered alert of    *)
(* user u with its three channel flags.                                    *)
(***************************************************************************)

\* if alert.notify_sms: only a log line; notify_user returns
SmsBranch(n) == [n EXCEPT !.pc = "done"]

\* if alert.notify_email: the arguments of send_alert_email are evaluated,
\* alert.user first, a relationship the query of the monitor did not load;
\* when reading it raises, the except clause logs and the call is not made
EmailBranch(n, loaded) ==
    IF n.notify_email /\ loaded
    THEN [n EXCEPT !.pc = "email", !.emailed = TRUE]
    ELSE SmsBranch(n)

\* notify_user is called and runs to its first await
NuBegin(u, web, email, sms, loaded) ==
    /\ nu.pc = "idle" /\ hmon.pc = "idle"
    /\ LET n0 == [IdleNu EXCEPT !.user = u, !.notify_websocket = web,
                                !.notify_email = email, !.notify_sms = sms]
       IN  IF web
           THEN /\ nu' = [n0 EXCEPT !.pc = "push", !.pushed = TRUE]
                /\ hmon' = send_alert_notification(hub, u)
           ELSE /\ nu' = EmailBranch(n0, loaded)
                /\ UNCHANGED hmon
    /\ UNCHANGED <<hub, ep, evalVars, engVars, gateVars, storeVars, wsVars>>

\* send_alert_notification returned
PushReturn(loaded) ==
    /\ nu.pc = "push" /\ hmon.pc = "idle"
    /\ nu' = EmailBranch(nu, loaded)
    /\ UNCHANGED <<hubVars, evalVars, engVars, gateVars, storeVars, wsVars>>

\* send_alert_email returned, or raised and the exception was logged
EmailSent(success) ==
    /\ nu.pc = "email"
    /\ nu' = SmsBranch(nu)
    /\ UNCHANGED <<hubVars, evalVars, engVars, gateVars, storeVars, wsVars>>

\* notify_user returns to _check_alert
NuReturn ==
    /\ nu.pc = "done"
    /\ nu' = IdleNu
    /\ UNCHANGED <<hubVars, evalVars, engVars, gateVars, storeVars, wsVars>>

\* the dispatcher, the sends of its push, and connections that come and go
NotifyNext ==
    \/ \E c \in Conns : Accept(c)
    \/ \E c \in Conns, success \in BOOLEAN : WelcomeSend(c, success)
    \/ \E c \in Conns : RecvDisconnect(c)
    \/ \E u \in Users, web, email, sms, loaded \in BOOLEAN :
         NuBegin(u, web, email, sms, loaded)
    \/ \E success \in BOOLEAN : MonSend(success)
    \/ \E loaded \in BOOLEAN : PushReturn(loaded)
    \/ \E success \in BOOLEAN : EmailSent(success)
    \/ NuReturn

SpecNotify == HubStart /\ [][NotifyNext]_vars

(***************************************************************************)
(* The Market Data Gateway: MarketDataClient.get_price over its provider   *)
(* adapters, get_current_price with the Redis cache in front of it, and    *)
(* the callers of both.                                                    *)
(***************************************************************************)

\* what an adapter returns: get_crypto_price_binance, _coingecko and
\* get_stock_price_yahoo return the price of a quote, and None for a
\* response without a price as for an exception or a timeout
AdapterReturn(reply) == IF reply.kind = "price" THEN reply.price ELSE None

\* faulty variant of NeedFallback: CoinGecko is asked whatever Binance said
NeedFallback_always(price) == TRUE

\* get_price, crypto: "if price is None:" before the call of CoinGecko
NeedFallback(price) == price = None

\* faulty variant of HttpStatus: every failure is reported as 503
HttpStatus_unavailable(exc) == 503

\* router.get_price: SymbolNotFoundException is turned into 404,
\* PriceDataUnavailableException into 503
HttpStatus(exc) ==
    IF exc = "SymbolNotFoundException" THEN 404 ELSE 503

\* faulty variant of CacheAfterFail: a failed fetch leaves a marker
CacheAfterFail_marker(cache, key) == [cache EXCEPT ![key] = Str(0)]

\* get_current_price: get_price raised, the exception leaves the function
\* before redis_client.setex is reached
CacheAfterFail(cache, key) == cache

\* the request is over with a price
Succeed(q, price) ==
    IF q.entry = "lookup"
    THEN [q EXCEPT !.pc = "cache_set", !.price = price]
    ELSE [q EXCEPT !.pc = "done", !.price = price,
                   !.valid = IF q.entry = "validate" THEN "true" ELSE "none"]

\* get_price raises SymbolNotFoundException: the router answers with an
\* HTTP error, validate_symbol catches it and returns False, the monitor
\* catches it in _check_symbol_alerts
Fail(q) ==
    [q EXCEPT !.pc = "done", !.raised = "SymbolNotFoundException",
              !.status = IF q.entry = "lookup"
                         THEN HttpStatus("SymbolNotFoundException") ELSE 0,
              !.valid = IF q.entry = "validate" THEN "false" ELSE "none"]

\* get_price begins: symbol.upper(), then the first adapter of the class
StartChain(q) ==
    LET first == IF q.asset_type = CRYPTO THEN "binance" ELSE "yahoo"
    IN  [q EXCEPT !.pc = first, !.symbol = Upper(q.symbol),
                  !.contacted = <<first>>]

\* get_price after the adapter for Binance returned
AfterBinance(q, price) ==
    IF NeedFallback(price)
    THEN IF q.symbol \in symbol_map
         THEN [q EXCEPT !.pc = "coingecko",
                        !.contacted = Append(@, "coingecko")]
         ELSE \* "if not coin_id: return None", then the raise of get_price
              Fail([q EXCEPT !.contacted = Append(@, "coingecko"),
                             !.replies = Append(@, [kind |-> "not_found",
                                                    price |-> None])])
    ELSE Succeed(q, price)

\* get_price after the last adapter of the class returned
AfterLast(q, price) == IF price = None THEN Fail(q) ELSE Succeed(q, price)

\* faulty variant of AfterCacheWrite: a failed write fails the lookup
AfterCacheWrite_fails(q, success) ==
    IF success
    THEN [q EXCEPT !.pc = "done", !.status = 200,
                   !.source = IF q.asset_type = CRYPTO THEN "binance"
                              ELSE "yahoo"]
    ELSE [q EXCEPT !.pc = "done", !.status = HttpStatus("RedisError"),
                   !.price = None, !.raised = "RedisError",
                   !.cache_failed = TRUE]

\* get_current_price after redis_client.setex returned True or False (an
\* exception of the write is caught and logged): PriceData with the fetched
\* price, source "binance" for crypto and "yahoo" otherwise
AfterCacheWrite(q, success) ==
    [q EXCEPT !.pc = "done", !.status = 200,
              !.source = IF q.asset_type = CRYPTO THEN "binance" ELSE "yahoo",
              !.cache_failed = @ \/ ~success]

\* a caller asks for a price; get_current_price runs to redis_client.get,
\* the others call market_data_client.get_price at once
GwCall(r, entry, symbol, asset_type) ==
    /\ gw.req[r].pc = "idle"
    /\ entry = "monitor" => symbol = Upper(symbol)
    /\ LET q == [IdleReq EXCEPT !.entry = entry, !.symbol = symbol,
                                !.asset_type = asset_type]
       IN  gw' = [gw EXCEPT !.req[r] =
                     IF entry = "lookup"
                     THEN [q EXCEPT !.pc = "cache_get",
                                    !.symbol = Upper(symbol)]
                     ELSE StartChain(q)]
    /\ UNCHANGED <<evalVars, engVars, hubVars, notVars, storeVars, wsVars>>

\* redis_client.get returned: the entry, or None when there is none and
\* when Redis is not connected or the read failed
CacheGet(r, readable) ==
    /\ gw.req[r].pc = "cache_get"
    /\ LET cached_price ==
               IF readable
               THEN gw.cache[cache_key(gw.req[r].asset_type, gw.req[r].symbol)]
               ELSE NoEntry
           q == [gw.req[r] EXCEPT !.consulted = TRUE, !.got = cached_price,
                                  !.cache_failed = ~readable]
       IN  gw' = [gw EXCEPT !.req[r] =
                     IF cached_price # NoEntry
                     THEN [q EXCEPT !.pc = "done", !.status = 200,
                                    !.price = Float(cached_price),
                                    !.source = "cache"]
                     ELSE StartChain(q)]
    /\ UNCHANGED <<evalVars, engVars, hubVars, notVars, storeVars, wsVars>>

\* the HTTP request of the adapter in progress ended
AdapterReply(r, reply) ==
    /\ gw.req[r].pc \in {"binance", "coingecko", "yahoo"}
    /\ LET q == [gw.req[r] EXCEPT !.replies = Append(@, reply)]
           price == AdapterReturn(reply)
           after == IF q.pc = "binance" THEN AfterBinance(q, price)
                    ELSE AfterLast(q, price)
       IN  gw' = [gw EXCEPT
                     !.req[r] = after,
                     !.cache = IF after.raised # "none"
                               THEN CacheAfterFail(@, cache_key(q.asset_type,
                                                                q.symbol))
                               ELSE @]
    /\ UNCHANGED <<evalVars, engVars, hubVars, notVars, storeVars, wsVars>>

\* redis_client.setex returned, True or False; get_current_price returns
\* PriceData with source "binance" for crypto and "yahoo" otherwise
CacheSet(r, writable) ==
    /\ gw.req[r].pc = "cache_set"
    /\ LET q == gw.req[r]
       IN  gw' = [gw EXCEPT
                     !.cache[cache_key(q.asset_type, q.symbol)] =
                         IF writable THEN Str(q.price) ELSE @,
                     !.req[r] = AfterCacheWrite(q, writable)]
    /\ UNCHANGED <<evalVars, engVars, hubVars, notVars, storeVars, wsVars>>

\* PRICE_CACHE_TTL seconds after it was written, Redis drops an entry
CacheExpire(k) ==
    /\ gw.cache[k] # NoEntry
    /\ gw' = [gw EXCEPT !.cache[k] = NoEntry]
    /\ UNCHANGED <<evalVars, engVars, hubVars, notVars, storeVars, wsVars>>

\* the caller has its answer
GwReturn(r) ==
    /\ gw.req[r].pc = "done"
    /\ gw' = [gw EXCEPT !.req[r] = IdleReq]
    /\ UNCHANGED <<evalVars, engVars, hubVars, notVars, storeVars, wsVars>>

\* price requests of the three callers, one after the other
GateNext ==
    \/ \E r \in Requests, entry \in Entries, symbol \in GateSymbols,
          asset_type \in AssetType : GwCall(r, entry, symbol, asset_type)
    \/ \E r \in Requests, readable \in BOOLEAN : CacheGet(r, readable)
    \/ \E r \in Requests, reply \in Replies : AdapterReply(r, reply)
    \/ \E r \in Requests, writable \in BOOLEAN : CacheSet(r, writable)
    \/ \E k \in CacheKeys : CacheExpire(k)
    \/ \E r \in Requests : GwReturn(r)

SpecGate == HubStart /\ [][GateNext]_vars

(***************************************************************************)
(* The alert store as the owner of the alerts uses it (alerts/router.py    *)
(* over alerts/service.py) while the monitor runs its cycles.              *)
(***************************************************************************)

\* get_alert_by_id: the row of that id unless its status is deleted
get_alert_by_id(tb, alert_id) ==
    IF tb[alert_id] # NoRow /\ tb[alert_id].status # DELETED
    THEN tb[alert_id] ELSE NoRow

\* get_user_alerts: the ids of the rows of the user that are not deleted,
\* of one status when a filter is given
get_user_alerts(tb, status) ==
    {a \in AlertIds :
        /\ tb[a] # NoRow /\ tb[a].status # DELETED
        /\ status # "none" => tb[a].status = status}

\* count_user_alerts: the same conditions, counted
count_user_alerts(tb, status) ==
    Cardinality({a \in AlertIds :
        /\ tb[a] # NoRow /\ tb[a].status # DELETED
        /\ status # "none" => tb[a].status = status})

\* the statuses the body of PUT /alerts/{id} may carry: AlertUpdate.status
\* is an Optional[AlertStatus], so every member of the enumeration passes
\* validation, not only the two the route documents (active, paused)
UpdateStatuses == AlertStatus

\* the routes on one alert
StoreOps == {"get", "update", "delete"}

\* the UPDATE of a monitoring cycle that was flushed and is not committed
\* yet holds the lock of the row
RowLocked(a) == \E s \in Slots : a \in task[s].flushed

\* setattr(alert, "status", status) and commit: the UPDATE of the session
\* names the column when the value differs from the loaded one
SetStatus(row, loaded, status) ==
    IF status # loaded.status THEN [row EXCEPT !.status = status] ELSE row

\* a request for alert a arrives: the route awaits get_alert_by_id and
\* raises AlertNotFoundException (404) when it returns None; GET answers
\* with the row
UsrLoad(op, a, status) ==
    /\ usr.pc = "idle"
    /\ op = "update" <=> status # "none"
    /\ LET alert == get_alert_by_id(db, a)
           u == [usr EXCEPT !.op = op, !.id = a, !.status = status,
                            !.row = alert]
       IN  usr' = IF alert = NoRow THEN [u EXCEPT !.pc = "done", !.answer = 404]
                  ELSE IF op = "get" THEN [u EXCEPT !.pc = "done", !.answer = 200]
                  ELSE [u EXCEPT !.pc = "loaded"]
    /\ UNCHANGED <<engVars, evalVars, hubVars, notVars, gateVars, wsVars>>

\* update_alert or delete_alert: the attribute is set and the session
\* commits
UsrCommit ==
    /\ usr.pc = "loaded"
    /\ ~RowLocked(usr.id)
    /\ LET status == IF usr.op = "delete" THEN DELETED ELSE usr.status
       IN  /\ db' = [db EXCEPT ![usr.id] = SetStatus(@, usr.row, status)]
           /\ usr' = [usr EXCEPT
                        !.pc = "done",
                        !.answer = IF usr.op = "delete" THEN 204 ELSE 200,
                        !.deleted_at[usr.id] =
                            IF usr.op = "delete" THEN clock ELSE @]
    /\ UNCHANGED <<clock, running, interval, monitor_task, task, stopper,
                   sched_log, hist>>
    /\ UNCHANGED <<evalVars, hubVars, notVars, gateVars, wsVars>>

\* the response is sent
UsrReturn ==
    /\ usr.pc = "done"
    /\ usr' = [IdleUsr EXCEPT !.deleted_at = usr.deleted_at]
    /\ UNCHANGED <<engVars, evalVars, hubVars, notVars, gateVars, wsVars>>

\* the application has started over a table with at most one alert
StoreInit ==
    /\ Init
    /\ db \in SchedTables

\* the cycles of the monitor and the requests of the owner of the alert
StoreNext ==
    \/ \E s \in Slots : CycleStep(s)
    \/ \E op \in StoreOps, a \in AlertIds, status \in UpdateStatuses \cup {"none"} :
         UsrLoad(op, a, status)
    \/ UsrCommit
    \/ UsrReturn

SpecStore == StoreInit /\ [][StoreNext]_vars

(***************************************************************************)
(* The message loop of websocket_endpoint: one client event, the response  *)
(* the branch of its type sends, and back to receive_json.                 *)
(***************************************************************************)

\* what the "symbol" of a JSON message can be: absent, null, empty, a name
SymbolFields == {"<missing>", "<null>", "", "eth"}

\* the messages of a client: the four documented types and another one
Messages ==
    [type : {"subscribe", "unsubscribe"}, symbol : SymbolFields]
        \cup [type : {"ping", "get_subscriptions", "dance"},
              symbol : {"<missing>"}]

\* data.get("symbol", "")
GetSymbol(message) ==
    IF message.symbol = "<missing>" THEN "" ELSE message.symbol

\* get_user_subscriptions: the keys of symbol_watchers that hold the user
get_user_subscriptions(h, u) ==
    {k \in DOMAIN h.symbol_watchers : u \in h.symbol_watchers[k]}

\* a response without data
Response(type, symbol) == [type |-> type, symbol |-> symbol, data |-> {}]

\* the branch of the message type up to its send_json: the registries
\* afterwards, the response handed to send_json (NoReply when the branch
\* sends none), and whether an exception left the branch; None.upper()
\* raises AttributeError
Handle(h, u, message) ==
    LET raw == GetSymbol(message)
        symbol == Upper(raw)
        out(h2, reply) == [hub |-> h2, reply |-> reply, raised |-> FALSE]
    IN  CASE message.type = "subscribe" ->
               IF raw = "<null>"
               THEN [hub |-> h, reply |-> NoReply, raised |-> TRUE]
               ELSE IF symbol # ""
               THEN out(subscribe_to_symbol(h, u, symbol),
                        Response("subscribed", symbol))
               ELSE out(h, Response("error", ""))
          [] message.type = "unsubscribe" ->
               IF raw = "<null>"
               THEN [hub |-> h, reply |-> NoReply, raised |-> TRUE]
               ELSE IF symbol # ""
               THEN out(unsubscribe_from_symbol(h, u, symbol),
                        Response("unsubscribed", symbol))
               ELSE out(h, NoReply)
          [] message.type = "get_subscriptions" ->
               out(h, [type |-> "subscriptions", symbol |-> "",
                       data |-> get_user_subscriptions(h, u)])
          [] message.type = "ping" -> out(h, Response("pong", ""))
          [] OTHER -> out(h, Response("error", ""))

\* receive_json returned a message: its branch runs to its send_json, to
\* the next receive_json when it sends nothing, or to the except clause,
\* which disconnects
Receive(c, message) ==
    /\ ep[c].pc = "recv"
    /\ LET r == Handle(hub, Owner(c), message)
           h2 == IF r.raised THEN disconnect(hub, c) ELSE r.hub
       IN  /\ hub' = h2
           /\ conv' = [conn |-> c, event |-> message, reply |-> r.reply,
                       dropped |-> r.raised]
           /\ IF r.raised
              THEN /\ ep' = [EpAfter(ep, h2) EXCEPT ![c].pc = "closed"]
                   /\ hmon' = MonAfter(hmon, h2)
              ELSE /\ ep' = [ep EXCEPT ![c].pc = IF r.reply = NoReply
                                                 THEN "recv" ELSE "reply"]
                   /\ UNCHANGED hmon
    /\ UNCHANGED <<evalVars, engVars, notVars, gateVars, storeVars>>

\* connections, their welcome messages and the messages of their clients
TalkNext ==
    \/ \E c \in Conns : Accept(c)
    \/ \E c \in Conns, success \in BOOLEAN : WelcomeSend(c, success)
    \/ \E c \in Conns, message \in Messages : Receive(c, message)
    \/ \E c \in Conns : RecvDisconnect(c)
    \/ \E c \in Conns : ReplyOk(c)
    \/ \E c \in Conns : ReplyFail(c)

SpecTalk == HubStart /\ [][TalkNext]_vars

(***************************************************************************)
(* Claims about the evaluator (checked under SpecEval)                     *)
(***************************************************************************)

\* C1: for an active `above` alert should_trigger_alert returns true iff
\* price >= target_price (true at equality, false below), and never raises.
C1_AboveIffAtLeastTarget ==
    (ev_op = "should_trigger" /\ ev_alert.status = ACTIVE
        /\ ev_alert.alert_type = ABOVE)
    => /\ ev_ret \in {"true", "false"}
       /\ (ev_ret = "true") <=> (ev_price >= ev_alert.target_price)

\* Scenario A: target 50000, quote 50000, the evaluator answered true
C1_Witness ==
    /\ ev_op = "should_trigger" /\ ev_alert.status = ACTIVE
    /\ ev_alert.alert_type = ABOVE /\ ev_alert.target_price = 50000
    /\ ev_price = 50000 /\ ev_ret = "true"

\* C2: for an active `below` alert should_trigger_alert returns true iff
\* price <= target_price (equality triggers), and never raises.
C2_BelowIffAtMostTarget ==
    (ev_op = "should_trigger" /\ ev_alert.status = ACTIVE
        /\ ev_alert.alert_type = BELOW)
    => /\ ev_ret \in {"true", "false"}
       /\ (ev_ret = "true") <=> (ev_price <= ev_alert.target_price)

C2_Witness ==
    /\ ev_op = "should_trigger" /\ ev_alert.status = ACTIVE
    /\ ev_alert.alert_type = BELOW /\ ev_alert.target_price = 100
    /\ ev_price = 100 /\ ev_ret = "true"

\* C3 (as claimed): for an active percent-change alert with a baseline b > 0
\* and a threshold t, should_trigger_alert returns true iff
\* |price - b| / b * 100 >= t, in exact arithmetic: |price - b| * 100 >= t * b.
C3_PercentIffExact ==
    (ev_op = "should_trigger" /\ ev_alert.status = ACTIVE
        /\ ev_alert.alert_type = PERCENT_CHANGE
        /\ ev_alert.created_price # None /\ ev_alert.created_price > 0
        /\ ev_alert.percent_change # None)
    => /\ ev_ret \in {"true", "false"}
       /\ (ev_ret = "true")
            <=> (Abs(ev_price - ev_alert.created_price) * 100
                    >= ev_alert.percent_change * ev_alert.created_price)

\* C4: a percent-change alert without a baseline is never triggered: the
\* evaluator answers false without raising for every price and threshold,
\* and no evaluation by _check_alert, however often repeated, stamps it.
C4_NoBaselineNeverTriggers ==
    (ev_alert.alert_type = PERCENT_CHANGE /\ ev_alert.created_price = None)
    => /\ ev_op = "should_trigger" => ev_ret = "false"
       /\ ev_op = "check_alert"
            => (ev_ret = "ok" /\ ev_alert = ev_pre /\ ev_notified = 0)
       /\ ev_alert.triggered_at = None /\ ev_alert.triggered_price = None

\* an active alert without baseline went through _check_alert a second
\* time, with a threshold, and is still active
C4_Witness ==
    /\ ev_alert.alert_type = PERCENT_CHANGE /\ ev_alert.created_price = None
    /\ ev_alert.percent_change = 5 /\ ev_alert.status = ACTIVE
    /\ ev_op = "check_alert" /\ ev_now > 1 /\ ev_price = 129

\* C5: an alert that is not active is never triggered: should_trigger_alert
\* returns false for every kind and price, and _check_alert leaves the alert
\* (status, triggered_price, triggered_at) as it was and notifies nobody.
C5_InactiveNeverTriggers ==
    /\ (ev_op = "should_trigger" /\ ev_alert.status # ACTIVE)
         => ev_ret = "false"
    /\ (ev_op = "check_alert" /\ ev_pre.status # ACTIVE)
         => (ev_ret = "ok" /\ ev_alert = ev_pre /\ ev_notified = 0)

\* an alert triggered by an earlier evaluation is evaluated again later at a
\* price that meets its condition
C5_Witness ==
    /\ ev_op = "check_alert" /\ ev_pre.status = TRIGGERED
    /\ ev_pre.triggered_at # None /\ ev_now > ev_pre.triggered_at
    /\ ev_pre.alert_type = ABOVE /\ ev_price >= ev_pre.target_price
    /\ ev_price # ev_pre.triggered_price


(***************************************************************************)
(* Claims about the monitoring cycle (checked under Spec)                  *)
(***************************************************************************)

\* the alerts a cycle loaded, the keys of their groups, the row as loaded
Loaded(t) == {a \in AlertIds : t.sess[a] # NoRow}

LoadedKeys(t) == {GroupKey(t.sess[a]) : a \in Loaded(t)}

AsLoaded(t, a) == [t.sess[a] EXCEPT !.status = ACTIVE, !.triggered_price = None,
                                    !.triggered_at = None]

\* the cycle has reached its final commit
AtCommit(t) == t.pc = "commit" \/ t.c_end \in {"committed", "commit_failed"}

\* C6: a price fetch that fails for one group does not stop the cycle: a
\* cycle that loaded alerts ends only after its commit was attempted, by
\* then the fetch of every loaded group has been attempted, and in every
\* group whose fetch succeeded (and whose evaluation did not raise) each
\* alert whose condition holds at the fetched price is triggered at that
\* price, and is triggered in the table once the commit succeeded.
C6_FetchFailureIsolated ==
    \A s \in Slots :
        LET t == task[s]
        IN  /\ (t.pc = "sleep" /\ Loaded(t) # {})
                 => t.c_end \in {"committed", "commit_failed"}
            /\ AtCommit(t) =>
                 /\ t.c_tried = LoadedKeys(t)
                 /\ \A f \in t.c_fetched : \A a \in Loaded(t) :
                      (/\ GroupKey(t.sess[a]) = f[1]
                       /\ ~t.broken
                       /\ \A b \in t.c_raised : GroupKey(t.sess[b]) # f[1]
                       /\ should_trigger_alert(AsLoaded(t, a), f[2]))
                      => /\ t.sess[a].status = TRIGGERED
                         /\ t.sess[a].triggered_price = f[2]
                         /\ t.c_end = "committed"
                              => (db[a].status = TRIGGERED
                                    /\ db[a].triggered_price = f[2])

\* a cycle committed in which the fetch of one group failed and an alert of
\* another group was triggered
C6_Witness ==
    \E s \in Slots :
        LET t == task[s]
        IN  /\ t.c_end = "committed"
            /\ \E x \in t.c_tried : \A f \in t.c_fetched : f[1] # x
            /\ \E f \in t.c_fetched : \E a \in Loaded(t) :
                 /\ GroupKey(t.sess[a]) = f[1]
                 /\ db[a].status = TRIGGERED
                 /\ db[a].triggered_at = clock

\* C7 (as claimed): an alert is only delayed, never dropped: when the fetch
\* of its group failed in a cycle, and the next cycle loads it again, fetches
\* the price of its symbol successfully and commits, then the alert is
\* triggered if that price satisfies its condition.
C7_SatisfiedAlertIsTriggered ==
    \A s \in Slots :
        LET t == task[s]
        IN  (t.c_end = "committed" /\ ~t.broken)
            => \A f \in t.c_fetched : \A a \in Loaded(t) :
                 (/\ GroupKey(t.sess[a]) = f[1]
                  /\ f[1] \in t.c_prevfail
                  /\ ~should_trigger_raises(AsLoaded(t, a), f[2])
                  /\ should_trigger_alert(AsLoaded(t, a), f[2]))
                 => db[a].status = TRIGGERED

(***************************************************************************)
(* Claims about the scheduler (checked under SpecSched, SpecSchedFair)     *)
(***************************************************************************)

\* C8: at most one loop is alive at any time under every interleaving of
\* start() and stop(), and start() called while the task is alive creates no
\* task and changes nothing but the log.
C8_SingleLoop ==
    /\ [](Cardinality(LiveSlots) <= 1)
    /\ [][(SchedStart /\ ~CanCreate)
            => /\ UNCHANGED <<db, clock, running, interval, monitor_task,
                              task, stopper>>
               /\ hist' = [hist EXCEPT !.last_call = "start"]]_vars

\* start() was called while the loop was in the middle of a cycle
C8_Witness ==
    /\ sched_log = "already_running"
    /\ monitor_task # 0 /\ task[monitor_task].pc = "fetch"
    /\ Cardinality(LiveSlots) = 1

\* C9: stop() does not wait forever: it is resumed when the loop ends or
\* when the timeout cancels it, and then returns.  Once stop() has returned
\* (and until a start() creates a task) no task is alive, so no cycle is in
\* flight and none starts; after a timeout the loop was ended by
\* cancellation and the warning was logged.
C9_StopEndsTheLoop ==
    /\ [](hist.last_stop \in {"ok", "timeout", "raised"} => LiveSlots = {})
    /\ [](hist.last_stop = "timeout"
            => (hist.warned /\ hist.exit_cause = "cancelled"))
    /\ (stopper.st # "idle") ~> (stopper.st = "idle")

\* stop() returned after the timeout cancelled a loop that had started a cycle
C9_Witness ==
    /\ hist.last_stop = "timeout" /\ hist.warned
    /\ stopper.st = "idle" /\ LiveSlots = {}
    /\ clock > 0 /\ sched_log = "stopped"

\* C10: no error of a cycle ends the loop: a task ends only by cancellation
\* or at the while test with self.running false, both of which need a call
\* of stop(); after an error the task is in the error sleep, and from there
\* it goes to the next cycle unless stop() ends it.
C10_ErrorsDoNotEndTheLoop ==
    /\ [][\A s \in Slots :
            (Live(s) /\ task'[s].pc = "free")
              => (task[s].cancel \/ (task[s].pc = "sleep" /\ ~running))]_vars
    /\ [](\A s \in Slots :
            (task[s].cancel \/ (task[s].pc \notin {"free", "created"} /\ ~running))
              => hist.stop_called)
    /\ [](\A s \in Slots :
            task[s].c_end \in {"load_failed", "commit_failed"}
              => (task[s].pc = "sleep" /\ task[s].sleep_for = ERROR_SLEEP))
    /\ [][\A s \in Slots :
            (task[s].c_end \in {"load_failed", "commit_failed"}
                /\ task'[s] # task[s])
              => (task'[s].pc \in {"load", "free"} \/ task'[s].cancel)]_vars

\* the loop is in a cycle that follows a failed commit, and stop() was never
\* called
C10_Witness ==
    \E s \in Slots :
        /\ task[s].c_prev = "commit_failed"
        /\ task[s].pc = "fetch"
        /\ ~hist.stop_called

(***************************************************************************)
(* Claims about the Connection Hub.                                        *)
(***************************************************************************)

\* C11: in every reachable state of the hub, whatever connects,
\* disconnects, subscribes, unsubscribes and sends were interleaved, every
\* user id in some symbol's watcher set has at least one connection.
C11_WatchersAreConnected ==
    \A k \in DOMAIN hub.symbol_watchers :
        \A u \in hub.symbol_watchers[k] : hub.active_connections[u] # <<>>

\* C12: disconnect of a registered connection removes it from the
\* connections of its user and from the reverse lookup and leaves every
\* other connection alone; when the user has no connection left the user is
\* in no watcher set afterwards, and when the user has another connection
\* all watches are as before.  The watches of other users never change.
C12_DisconnectRemoves ==
    \A c \in Registered(hub) :
        LET u == hub.websocket_users[c]
            h2 == disconnect(hub, c)
        IN  /\ h2.websocket_users = [hub.websocket_users EXCEPT ![c] = 0]
            /\ SeqSet(h2.active_connections[u])
                 = SeqSet(hub.active_connections[u]) \ {c}
            /\ \A v \in Users \ {u} :
                 h2.active_connections[v] = hub.active_connections[v]
            /\ IF h2.active_connections[u] = <<>>
               THEN /\ \A k \in DOMAIN h2.symbol_watchers :
                         u \notin h2.symbol_watchers[k]
                    /\ \A k \in DOMAIN hub.symbol_watchers :
                         \A v \in hub.symbol_watchers[k] \ {u} :
                            /\ k \in DOMAIN h2.symbol_watchers
                            /\ v \in h2.symbol_watchers[k]
               ELSE h2.symbol_watchers = hub.symbol_watchers

\* a connection was closed by disconnect, the user still has another
\* connection and still watches a symbol; another registered connection is
\* the only one of a user who watches two symbols
C12_Witness ==
    /\ \E c \in Conns, c2 \in Registered(hub) :
         /\ ep[c].pc = "closed" /\ Owner(c) = Owner(c2)
         /\ hub.websocket_users[c] = 0
         /\ \E k \in DOMAIN hub.symbol_watchers :
              Owner(c) \in hub.symbol_watchers[k]
    /\ \E c \in Registered(hub) :
         /\ hub.active_connections[Owner(c)] = <<c>>
         /\ \A k \in {"ETH", "BTC"} : Owner(c) \in get_watching_users(hub, k)

\* C13: when a price-update broadcast returns, the event was sent only to
\* connections of users that were in the symbol's watcher set when the
\* broadcast started, and to every connection of such a user that was
\* registered from the start of the broadcast to its end, whatever the
\* endpoints did during the sends.
C13_BroadcastReachesSnapshot ==
    [][(hmon.pc = "bcast" /\ hmon'.pc = "idle") =>
         LET tried == hmon.tried \cup {hmon.job.cur}
         IN  /\ \A c \in tried : Owner(c) \in hmon.snapshot
             /\ \A c \in hmon.conns_at_start \cap Registered(hub') :
                  Owner(c) \in hmon.snapshot => c \in tried]_vars

\* C14: when send_personal_message returns to the monitor, the
\* connections it removed from the registry are exactly those whose send
\* failed, and every connection of the user that was registered when the
\* call began and is registered when it returns has received the event.
C14_SendToUserReachesAll ==
    [][(hmon.pc # "idle" /\ hmon'.job.user # hmon.job.user) =>
         \E success \in BOOLEAN :
            LET j1 == AfterSend(hmon.job, success)
            IN  /\ Registered(hub) \ Registered(hub')
                     = SeqSet(j1.dead) \cap Registered(hub)
                /\ \A c \in j1.at_start \cap Registered(hub') :
                     c \in j1.ok]_vars

\* C15: within one event of the monitor (one price update, one alert
\* notification) no connection is sent the event a second time: the
\* connection a send is in flight on has not been sent this event before,
\* whether the earlier send succeeded or failed.
C15_AtMostOncePerConnection ==
    hmon.pc # "idle" => hmon.job.cur \notin hmon.tried

\* a price update failed on the first connection of a user and is now in
\* flight on the second one
C15_Witness ==
    /\ hmon.pc = "bcast"
    /\ hmon.job.idx = 2
    /\ hmon.job.dead # <<>>
    /\ hmon.job.cur \notin SeqSet(hmon.job.dead)
    /\ SeqSet(hmon.job.dead) \subseteq hmon.tried

\* C16: in every reachable state of the registries, for every user and
\* every spelling of a symbol, subscribing twice gives the registries that
\* subscribing once gives, unsubscribing twice gives what unsubscribing once
\* gives, and unsubscribing a user who does not watch the symbol (or a
\* symbol without watchers) changes nothing.
C16_SubscribeIdempotent ==
    \A u \in Users, s \in RawSymbols :
        LET once == subscribe_to_symbol(hub, u, s)
            gone == unsubscribe_from_symbol(hub, u, s)
        IN  /\ subscribe_to_symbol(once, u, s) = once
            /\ unsubscribe_from_symbol(gone, u, s) = gone
            /\ u \notin get_watching_users(hub, s) => gone = hub

\* user 1 has subscribed to ETH and one of its endpoints has just handled a
\* message; user 2 does not watch ETH, and nobody watches BTC
C16_Witness ==
    /\ get_watching_users(hub, "ETH") = {1}
    /\ "BTC" \notin DOMAIN hub.symbol_watchers
    /\ \E c \in Registered(hub) : Owner(c) = 1 /\ ep[c].pc = "reply"
    /\ \E c \in Registered(hub) : Owner(c) = 2 /\ ep[c].pc = "recv"

\* C17: every key of the watcher sets is an upper-cased symbol, and in
\* every reachable state of the registries a user who subscribes under any
\* spelling of a symbol is stored under the upper-cased symbol, is returned
\* by get_watching_users and is in the list a broadcast iterates over for
\* every spelling of that symbol, and is removed by an unsubscribe under
\* every spelling.
C17_SymbolsCaseInsensitive ==
    /\ \A k \in DOMAIN hub.symbol_watchers : k = Upper(k)
    /\ \A u \in Users, s \in RawSymbols :
         LET h2 == subscribe_to_symbol(hub, u, s)
         IN  /\ Upper(s) \in DOMAIN h2.symbol_watchers
             /\ u \in h2.symbol_watchers[Upper(s)]
             /\ \A s2 \in RawSymbols :
                  Upper(s2) = Upper(s) =>
                    /\ u \in get_watching_users(h2, s2)
                    /\ u \in broadcast_snapshot(h2, s2)
                    /\ u \notin get_watching_users(
                                  unsubscribe_from_symbol(h2, u, s2), s)

\* both users have subscribed to ETH, written "eth" or "ETH" by the
\* client, and a price update for ETH is in flight on a connection of the
\* first of them
C17_Witness ==
    /\ hmon.pc = "bcast"
    /\ hmon.snapshot = {1, 2}
    /\ hmon.users # <<>>
    /\ hmon.job.cur \in Registered(hub)
    /\ DOMAIN hub.symbol_watchers = {"ETH"}

(***************************************************************************)
(* Claims about the notifications of the engine.                           *)
(***************************************************************************)

\* C18: an alert for which notify_user is running or has returned, in
\* this cycle or an earlier one, is stored with status triggered, whatever
\* happened to the notifications and to the rest of the cycle.
C18_TriggerCommittedBeforeDispatch ==
    \A a \in AlertIds :
        (\/ hist.dispatched[a] > 0
         \/ \E s \in Slots : task[s].pc = "notify" /\ Dispatching(task[s]) = a)
            => db[a].status = TRIGGERED

\* C19: no alert is dispatched a second time for the same activation:
\* however the cycles ended, notify_user has returned at most once for each
\* alert, none of which was activated again after it was created.
C19_DispatchedAtMostOnce ==
    \A a \in AlertIds : hist.dispatched[a] <= 1

\* C20: when notify_user returns, the hub push was sent exactly if the
\* alert's push flag is set, the email collaborator was called exactly if
\* its email flag is set, and nothing was sent by SMS; notify_user always
\* returns normally.
C20_ChannelsByFlag ==
    nu.pc = "done" =>
        /\ nu.pushed <=> nu.notify_websocket
        /\ nu.emailed <=> nu.notify_email
        /\ ~nu.texted

(***************************************************************************)
(* Claims about the Market Data Gateway (checked under SpecGate)           *)
(***************************************************************************)

\* the requests that have run get_price
ChainRun(q) == q.contacted # <<>>

\* every answer the request got so far is of this kind
AllReplies(q, kind) ==
    /\ q.replies # <<>>
    /\ \A i \in 1..Len(q.replies) : q.replies[i].kind = kind

\* the request got a price out of get_price
Fetched(q) ==
    q.pc \in {"cache_set", "done"} /\ ChainRun(q) /\ q.raised = "none"

\* C21: for a crypto symbol Binance is tried first and CoinGecko is
\* contacted if and only if Binance failed or returned no price; the price
\* returned is the one of the first provider that succeeded; for an equity
\* symbol exactly one provider is contacted.
C21_ProvidersInOrder ==
    \A r \in Requests :
        LET q == gw.req[r]
        IN  ChainRun(q) =>
              /\ q.asset_type = CRYPTO =>
                   /\ q.contacted[1] = "binance"
                   /\ Len(q.contacted) <= 2
                   /\ Len(q.contacted) = 2 =>
                        q.contacted[2] = "coingecko"
                   /\ Len(q.contacted) = 2 <=>
                        (q.replies # <<>> /\ q.replies[1].kind # "price")
              /\ q.asset_type = STOCK => q.contacted = <<"yahoo">>
              /\ Fetched(q) =>
                   \E i \in 1..Len(q.replies) :
                       /\ q.replies[i].kind = "price"
                       /\ q.price = q.replies[i].price
                       /\ \A j \in 1..(i - 1) : q.replies[j].kind # "price"

\* Binance timed out, CoinGecko answered, and its price was returned
C21_Witness ==
    \E r \in Requests :
        LET q == gw.req[r]
        IN  /\ q.pc = "done" /\ q.asset_type = CRYPTO
            /\ q.contacted = <<"binance", "coingecko">>
            /\ Len(q.replies) = 2
            /\ q.replies[1].kind = "error"
            /\ q.replies[2].kind = "price"
            /\ q.price = q.replies[2].price

\* C22: a fetch fails with SymbolNotFound when no provider of the asset
\* class recognizes the symbol; the price lookup answers 404 and symbol
\* validation reports the symbol as invalid.
C22_UnknownSymbolNotFound ==
    \A r \in Requests :
        LET q == gw.req[r]
        IN  (q.pc = "done" /\ ChainRun(q) /\ AllReplies(q, "not_found")) =>
              /\ q.raised = "SymbolNotFoundException"
              /\ q.price = None
              /\ q.entry = "lookup" => q.status = 404
              /\ q.entry = "validate" => q.valid = "false"

\* a lookup of a crypto symbol neither Binance nor CoinGecko knows
C22_Witness ==
    \E r \in Requests :
        LET q == gw.req[r]
        IN  /\ q.pc = "done" /\ q.entry = "lookup" /\ q.asset_type = CRYPTO
            /\ Len(q.replies) = 2 /\ AllReplies(q, "not_found")
            /\ q.status = 404

\* C23: a fetch fails with SourceUnavailable, and not with SymbolNotFound,
\* when every provider of the asset class errored or timed out.
C23_OutageIsUnavailable ==
    \A r \in Requests :
        LET q == gw.req[r]
        IN  (q.pc = "done" /\ ChainRun(q) /\ AllReplies(q, "error")) =>
              /\ q.raised = "PriceDataUnavailableException"
              /\ q.entry = "lookup" => q.status = 503

\* what holds, after a step, of a request that has read the cache
AfterCacheRead ==
    \A r \in Requests :
        LET q == gw.req[r]
        IN  q.consulted =>
              /\ q.got # NoEntry =>
                   /\ q.pc = "done" /\ q.source = "cache" /\ q.status = 200
                   /\ q.price = Float(q.got)
                   /\ ~ChainRun(q)
              /\ q.got = NoEntry => ChainRun(q) /\ q.source # "cache"

\* what holds of a step that changes the cache or fails a fetch
CacheStepOk ==
    /\ \A k \in CacheKeys :
         (gw'.cache[k] # gw.cache[k] /\ gw'.cache[k] # NoEntry) =>
           \E r \in Requests :
               LET q == gw.req[r]
               IN  /\ q.pc = "cache_set" /\ gw'.req[r].pc = "done"
                   /\ k = cache_key(q.asset_type, q.symbol)
                   /\ Fetched(q)
                   /\ q.replies[Len(q.replies)].kind = "price"
                   /\ q.replies[Len(q.replies)].price = q.price
                   /\ gw'.cache[k] = Str(q.price)
    /\ \A r \in Requests :
         (gw.req[r].raised = "none" /\ gw'.req[r].raised # "none") =>
           gw'.cache = gw.cache

\* C24: the cache holds only values returned by a successful provider
\* fetch: a hit returns the cached price with source "cache" and contacts
\* no provider, a miss runs the provider chain and writes the cache only on
\* success, and a failed fetch neither creates nor overwrites an entry.
C24_CacheOnlySuccess == [][CacheStepOk /\ AfterCacheRead']_vars

\* a lookup was answered from the cache with the price 101
C24_Witness ==
    \E r \in Requests :
        LET q == gw.req[r]
        IN  /\ q.pc = "done" /\ q.source = "cache" /\ q.price = 101
            /\ q.got = Str(101) /\ q.contacted = <<>>

\* C25: every fetch, those of the monitoring cycle included, consults the
\* cache before it contacts a provider.
C25_EveryFetchConsultsCache ==
    \A r \in Requests :
        LET q == gw.req[r]
        IN  (q.entry \in {"lookup", "monitor"} /\ ChainRun(q)) => q.consulted

(***************************************************************************)
(* Claims about the alert store and the engine (checked under SpecStore)   *)
(***************************************************************************)

\* C26: the trigger record is write-once: once triggered_price and
\* triggered_at of an alert are stamped, no later step of the engine or of
\* the store changes them, a new trigger after a re-activation included.
C26_TriggerRecordWriteOnce ==
    [][\A a \in AlertIds :
          (db[a] # NoRow /\ db[a].triggered_at # None) =>
            /\ db'[a].triggered_at = db[a].triggered_at
            /\ db'[a].triggered_price = db[a].triggered_price]_vars

\* C28: after delete_alert the alert is returned neither by get_alert_by_id
\* nor by get_user_alerts, is not counted by count_user_alerts, and is not
\* loaded by a monitoring cycle that starts afterwards.
C28_DeletedIsInvisible ==
    \A a \in AlertIds :
        usr.deleted_at[a] # None =>
          /\ get_alert_by_id(db, a) = NoRow
          /\ \A status \in AlertStatus \cup {"none"} :
               /\ a \notin get_user_alerts(db, status)
               /\ count_user_alerts(db, status)
                    = Cardinality(get_user_alerts(db, status) \ {a})
          /\ \A s \in Slots :
               (task[s].sess[a] # NoRow) => clock <= usr.deleted_at[a]

\* C29: an alert the user paused or deleted is not moved to triggered and
\* not notified by the engine while it is paused or deleted, and the
\* status the user set is changed by nothing but a request of the user.
C29_UserStatusWins ==
    [][\A a \in AlertIds :
          (db[a] # NoRow /\ db[a].status \in {PAUSED, DELETED}) =>
            /\ db'[a].status # db[a].status =>
                 (usr.pc = "loaded" /\ usr.id = a /\ usr'.pc = "done")
            /\ hist'.dispatched[a] = hist.dispatched[a]]_vars

(***************************************************************************)
(* Claims about the message loop of a connection (checked under SpecTalk)  *)
(***************************************************************************)

\* the response types the protocol allows for a client event; a subscribe
\* or unsubscribe without a symbol may be answered as such or by an error
ExpectedTypes(event) ==
    CASE event.type = "subscribe" ->
           IF Upper(GetSymbol(event)) \in {"", "<null>"}
           THEN {"subscribed", "error"} ELSE {"subscribed"}
      [] event.type = "unsubscribe" ->
           IF Upper(GetSymbol(event)) \in {"", "<null>"}
           THEN {"unsubscribed", "error"} ELSE {"unsubscribed"}
      [] event.type = "ping" -> {"pong"}
      [] event.type = "get_subscriptions" -> {"subscriptions"}
      [] OTHER -> {"error"}

\* C27: each client event is answered with exactly one response of the
\* type of its kind (subscriptions listing exactly the symbols the user
\* watches) and never drops the connection, a subscribe or unsubscribe
\* with a missing or empty symbol included.
C27_OneResponsePerEvent ==
    [][\A c \in Conns :
          (ep[c].pc = "recv" /\ conv'.conn = c
             /\ (conv' # conv \/ ep'[c].pc = "reply")) =>
            /\ ~conv'.dropped
            /\ ep'[c].pc = "reply"
            /\ conv'.reply.type \in ExpectedTypes(conv'.event)
            /\ conv'.event.type = "get_subscriptions" =>
                 conv'.reply.data = get_user_subscriptions(hub', Owner(c))]_vars

(***************************************************************************)
(* Claims about the price updates of a cycle (checked under Spec)          *)
(***************************************************************************)

\* the price updates of the cycle of task t for the group of key k
Casts(t, k) == {i \in 1 .. Len(t.c_cast) : t.c_cast[i][1] = k}

\* C30: in every cycle, for every group whose fetch succeeded exactly one
\* price update with the fetched price is handed to the hub, whether or not
\* an alert of the group triggers, and before an alert of the group is
\* evaluated; for a group whose fetch failed there is none.
C30_OnePriceUpdatePerFetch ==
    \A s \in Slots :
        LET t == task[s]
        IN  /\ \A f \in t.c_fetched :
                 /\ Cardinality(Casts(t, f[1])) = 1
                 /\ \E i \in 1 .. Len(t.c_cast) : t.c_cast[i] = f
            /\ \A i \in 1 .. Len(t.c_cast) : t.c_cast[i] \in t.c_fetched
            /\ \A k \in t.c_tried :
                 (\A f \in t.c_fetched : f[1] # k) => Casts(t, k) = {}
            /\ \A k \in t.c_evald : Casts(t, k) # {}

\* a committed cycle over two groups: one fetch failed, the other returned
\* 99, below every target; one price update, 99, and no alert triggered
C30_Witness ==
    \E s \in Slots :
        LET t == task[s]
        IN  /\ t.pc = "sleep" /\ t.c_end = "committed"
            /\ Cardinality(t.c_tried) = 2
            /\ Len(t.c_cast) = 1 /\ t.c_cast[1][2] = 99
            /\ t.c_evald = {t.c_cast[1][1]}
            /\ \A a \in AlertIds : t.sess[a].status # TRIGGERED

(***************************************************************************)
(* Claims about the groups of a cycle (checked under Spec)                 *)
(***************************************************************************)

\* the alerts the session of task t loaded
LoadedIds(t) == {a \in AlertIds : t.sess[a] # NoRow}

\* the groups gs partition the alerts of t, by key
IsPartition(t, gs) ==
    /\ \A p \in 1 .. Len(gs) :
         /\ gs[p] # <<>>
         /\ \A i, j \in 1 .. Len(gs[p]) :
              /\ GroupKey(t.sess[gs[p][i]]) = GroupKey(t.sess[gs[p][j]])
              /\ gs[p][i] = gs[p][j] => i = j
    /\ \A a \in LoadedIds(t) :
         Cardinality({p \in 1 .. Len(gs) :
                         \E i \in 1 .. Len(gs[p]) : gs[p][i] = a}) = 1
    /\ \A p \in 1 .. Len(gs) : \A i \in 1 .. Len(gs[p]) :
         gs[p][i] \in LoadedIds(t)

\* one quote per group, and every alert stamped in the cycle carries the
\* quote of its group
OneQuotePerGroup(t) ==
    /\ \A f, g \in t.c_fetched : f[1] = g[1] => f = g
    /\ \A a \in LoadedIds(t) :
         t.sess[a].status = TRIGGERED =>
           <<GroupKey(t.sess[a]), t.sess[a].triggered_price>> \in t.c_fetched
    /\ t.pc \in {"broadcast", "notify", "flush"} =>
         <<CurrentKey(t), t.price>> \in t.c_fetched

\* C31: grouping partitions the loaded alerts: every alert is in exactly
\* one group, the alerts of a group share their (symbol, asset class) key,
\* no group is empty, and per group at most one quote is fetched in a
\* cycle, against which every alert of the group is evaluated.
C31_GroupsPartition ==
    [][\A s \in Slots :
          /\ (task[s].pc = "load" /\ task'[s].pc = "fetch") =>
               IsPartition(task'[s], task'[s].groups)
          /\ OneQuotePerGroup(task'[s])]_vars

\* one quote, 100, for a group of two alerts, both stamped with it
C31_Witness ==
    \E s \in Slots :
        LET t == task[s]
        IN  /\ Cardinality(t.c_fetched) = 1
            /\ \A a \in {1, 2} :
                 /\ t.sess[a].status = TRIGGERED
                 /\ t.sess[a].triggered_price = 100

(***************************************************************************)
(* Claims about what a cycle leaves alone (checked under Spec)             *)
(***************************************************************************)

\* the keys of the groups fetched in the cycle of task t
FetchedKeys(t) == {f[1] : f \in t.c_fetched}

\* the stored alert a satisfies its condition at a price fetched for its
\* group in the cycle of task t
TriggersIn(t, a) ==
    \E f \in t.c_fetched :
        /\ f[1] = GroupKey(db[a])
        /\ ~should_trigger_raises(db[a], f[2])
        /\ should_trigger_alert(db[a], f[2])

\* the session of task t holds alert a as it is stored
Untouched(t, a) ==
    /\ t.sess[a].status = db[a].status
    /\ t.sess[a].triggered_price = db[a].triggered_price
    /\ t.sess[a].triggered_at = db[a].triggered_at

\* C32: a cycle leaves untouched every alert it does not trigger: the
\* alerts of a group whose fetch failed and the alerts whose evaluation
\* returned no-trigger keep status, trigger price and trigger time, in the
\* session as in the table, and no notification is dispatched for them.
C32_UntriggeredUntouched ==
    [][\A s \in Slots, a \in AlertIds :
          (a \in LoadedIds(task[s]) /\ ~TriggersIn(task'[s], a)) =>
            /\ a \in LoadedIds(task'[s]) => Untouched(task'[s], a)
            /\ db'[a] = db[a]
            /\ hist'.dispatched[a] = hist.dispatched[a]]_vars

\* a committed cycle over two groups: the fetch of one failed, the other
\* was fetched at 99 and triggered nothing; the table is as it was
C32_Witness ==
    \E s \in Slots :
        LET t == task[s]
        IN  /\ t.pc = "sleep" /\ t.c_end = "committed"
            /\ Cardinality(t.c_tried) = 2
            /\ t.c_fetched = {<<<<"BTC", CRYPTO>>, 99>>}
            /\ \A a \in {1, 2} :
                 /\ db[a].status = ACTIVE /\ db[a].triggered_at = None
                 /\ t.sess[a] = db[a]
                 /\ hist.dispatched[a] = 0

(***************************************************************************)
(* Claims about the sleeps between cycles                                  *)
(***************************************************************************)

\* how a cycle ends when _monitor_cycle returns
NormalEnds == {"committed", "empty"}

C34_WholeGroupEvaluated ==
    \A s \in Slots :
        LET t == task[s]
        IN  t.pc = "commit" =>
              \A a \in LoadedIds(t) :
                  GroupKey(t.sess[a]) \in FetchedKeys(t) => a \in t.c_checked

(***************************************************************************)
(* Claims about the welcome message                                        *)
(***************************************************************************)

\* C35: while connect() of connection c sends its welcome message, the
\* message has been delivered to no connection other than c
C35_WelcomeOnlyToNew ==
    \A c \in Conns :
        ep[c].pc = "welcome" => ep[c].job.ok \subseteq {c}

(***************************************************************************)
(* Claims about the three registries                                       *)
(***************************************************************************)

\* the positions of connection c in the list q
Places(q, c) == {i \in 1 .. Len(q) : q[i] = c}

\* C36: a connection is in the list of user u exactly when the reverse
\* lookup maps it to u, it is in the list of one user at most and once, the
\* users with a list are the users with a non-empty list, and no symbol has
\* an empty set of watchers
C36_RegistriesAgree ==
    /\ \A u \in Users, c \in Conns :
         c \in SeqSet(hub.active_connections[u]) <=> hub.websocket_users[c] = u
    /\ \A c \in Conns :
         /\ Cardinality({u \in Users :
                            c \in SeqSet(hub.active_connections[u])}) <= 1
         /\ \A u \in Users :
              Cardinality(Places(hub.active_connections[u], c)) <= 1
    /\ \A u \in Users :
         u \in hub.active_keys <=> hub.active_connections[u] # <<>>
    /\ \A k \in DOMAIN hub.symbol_watchers : hub.symbol_watchers[k] # {}

\* both connections of user 1 are registered and the user watches a symbol,
\* after the only connection of user 2 was closed and removed
C36_Witness ==
    /\ hub.active_connections[1] = <<1, 3>>
    /\ hub.active_keys = {1}
    /\ hub.websocket_users = <<1, 0, 1>>
    /\ ep[2].pc = "closed"
    /\ DOMAIN hub.symbol_watchers = {"ETH"}
    /\ hub.symbol_watchers["ETH"] = {1}

(***************************************************************************)
(* Claims about a send to one user while the registries change             *)
(***************************************************************************)

\* the connections in the list of the user when the call began that the
\* call, about to return after the send on job.cur, has not sent to
Skipped(job) == job.at_start \ (job.ok \cup {job.cur})

\* C37: when send_personal_message returns, to the monitor or to connect(),
\* no connection that was in the list of the user when the call began and is
\* still registered has been left without a send, whatever other handlers
\* did to the list while the call was suspended
C37_NoLiveConnectionSkipped ==
    [][/\ (hmon.pc # "idle" /\ hmon'.job.user # hmon.job.user)
            => Skipped(hmon.job) \cap Registered(hub') = {}
       /\ \A c \in Conns :
            (ep[c].pc = "welcome" /\ ep'[c].pc = "recv")
                => Skipped(ep[c].job) \cap Registered(hub') = {}]_vars

(***************************************************************************)
(* Claims about start() after stop()                                       *)
(***************************************************************************)

\* the task in slot s runs the loop and will go on with another cycle: it
\* is not cancelled, and it has not run yet or the flag of the loop is set
KeepsCycling(s) ==
    /\ Live(s) /\ ~task[s].cancel
    /\ task[s].pc = "created" \/ running

\* C38: whenever the last call of the scheduler was start(), a loop is
\* alive that goes on starting cycles, also when start() was called while
\* the loop stopped by an earlier stop() had not ended, or while that stop()
\* was about to cancel after its timeout
C38_StartLeavesRunning ==
    hist.last_call = "start" => \E s \in Slots : KeepsCycling(s)

(***************************************************************************)
(* Claims about a cache that is not available                              *)
(***************************************************************************)

\* market_data_client.get_price alone, for the answers the providers gave:
\* the chain as _check_symbol_alerts runs it, without the cache
ChainAlone(asset_type, symbol, replies) ==
    LET q0 == StartChain([IdleReq EXCEPT !.entry = "monitor",
                                        !.symbol = symbol,
                                        !.asset_type = asset_type])
        step(q, reply) ==
            LET q1 == [q EXCEPT !.replies = Append(@, reply)]
            IN  IF q.pc = "binance"
                THEN AfterBinance(q1, AdapterReturn(reply))
                ELSE AfterLast(q1, AdapterReturn(reply))
        a == step(q0, replies[1])
    IN  IF a.pc = "done" THEN a ELSE step(a, replies[2])

HasRecord(row) == row.triggered_price # None /\ row.triggered_at # None
NoRecord(row) == row.triggered_price = None /\ row.triggered_at = None

\* C40: after every step of the monitor and of the routes the stored alerts
\* whose status is triggered carry a trigger record, and a row gets a trigger
\* record only in a step that leaves it triggered, so that an alert that was
\* never triggered has none
C40_TriggeredIffRecord ==
    [][\A a \in AlertIds :
          db'[a] # NoRow =>
            /\ db'[a].status = TRIGGERED => HasRecord(db'[a])
            /\ (NoRecord(db[a]) /\ ~NoRecord(db'[a]))
                  => (db'[a].status = TRIGGERED /\ HasRecord(db'[a]))]_vars

====
